---- MODULE Spec2Model ----
(***************************************************************************)
(* Custom command discovery (codex-rs/core/src/custom_commands.rs) and     *)
(* numeric placeholder expansion (custom_command_expansion.rs,             *)
(* custom_prompt_expansion.rs).                                            *)
(*                                                                         *)
(* Text is modelled as a sequence of one-character strings.  In file       *)
(* contents the symbols "K" and "U" each stand for a run of header text    *)
(* without line breaks: "K" for the line `model: m`, "U" for a line with   *)
(* a key outside the recognised set.                                       *)
(***************************************************************************)
EXTENDS Integers, Sequences, FiniteSets, TLC

\* ------------------------------------------------------------------------
\* Bounds of the model
\* ------------------------------------------------------------------------
\* Directory entries present below the two scope roots in one snapshot.
MaxEntries == 3
\* Pieces a template is concatenated from.
MaxPieces == 3
\* Positional arguments of one expansion.
MaxArgs == 2
\* Tokens after the name in an invocation text.
MaxTokens == 2
\* Pieces of a template held by a catalog entry of a call.
MaxCallPieces == 2
\* Lines of a file content.
MaxLines == 4

\* ------------------------------------------------------------------------
\* Text
\* ------------------------------------------------------------------------
\* Byte value of each character the model uses (ASCII; "~" stands for a
\* byte that is not valid UTF-8 and sorts after every ASCII byte).
Byte(c) ==
  CASE c = "\n" -> 10 [] c = "\r" -> 13 [] c = " " -> 32 [] c = "$" -> 36
    [] c = "-" -> 45 [] c = "." -> 46 [] c = "/" -> 47 [] c = "0" -> 48
    [] c = "1" -> 49 [] c = "2" -> 50 [] c = ":" -> 58 [] c = "=" -> 61
    [] c = "A" -> 65 [] c = "B" -> 66 [] c = "D" -> 68 [] c = "E" -> 69
    [] c = "G" -> 71 [] c = "K" -> 75 [] c = "M" -> 77 [] c = "N" -> 78
    [] c = "R" -> 82 [] c = "S" -> 83 [] c = "T" -> 84 [] c = "U" -> 85
    [] c = "a" -> 97 [] c = "b" -> 98 [] c = "d" -> 100 [] c = "f" -> 102
    [] c = "i" -> 105 [] c = "m" -> 109 [] c = "n" -> 110 [] c = "o" -> 111
    [] c = "p" -> 112 [] c = "r" -> 114 [] c = "s" -> 115
    [] c = "t" -> 116 [] c = "u" -> 117
    [] c = "x" -> 120 [] c = "y" -> 121 [] c = "~" -> 255

\* str::cmp / OsStr::cmp: -1, 0 or 1, bytewise lexicographic.
RECURSIVE StrCmp(_, _)
StrCmp(a, b) ==
  IF a = <<>> THEN (IF b = <<>> THEN 0 ELSE -1)
  ELSE IF b = <<>> THEN 1
  ELSE IF Byte(Head(a)) < Byte(Head(b)) THEN -1
  ELSE IF Byte(Head(a)) > Byte(Head(b)) THEN 1
  ELSE StrCmp(Tail(a), Tail(b))

\* Path::cmp: lexicographic over the components, each compared as bytes.
RECURSIVE PathCmp(_, _)
PathCmp(p, q) ==
  IF p = <<>> THEN (IF q = <<>> THEN 0 ELSE -1)
  ELSE IF q = <<>> THEN 1
  ELSE IF StrCmp(Head(p), Head(q)) # 0 THEN StrCmp(Head(p), Head(q))
  ELSE PathCmp(Tail(p), Tail(q))

\* u8::to_ascii_lowercase on the letters the model uses.
ToAsciiLower(c) ==
  CASE c = "A" -> "a" [] c = "D" -> "d" [] c = "M" -> "m" [] OTHER -> c

\* str::eq_ignore_ascii_case
EqIgnoreAsciiCase(a, b) ==
  /\ Len(a) = Len(b)
  /\ \A k \in 1..Len(a) : ToAsciiLower(a[k]) = ToAsciiLower(b[k])

\* Valid UTF-8 (OsStr::to_str succeeds).
IsUtf8(s) == \A k \in 1..Len(s) : s[k] # "~"

\* A variable that holds no path or no outcome.
NoneValue == "None"

\* Option<T>: None, or Some(x).
None == <<>>
Some(x) == <<x>>

\* Index of the last "." of a file name, 0 when there is none.
LastDot(name) ==
  LET dots == {k \in 1..Len(name) : name[k] = "."}
  IN IF dots = {} THEN 0 ELSE CHOOSE k \in dots : \A m \in dots : m <= k

\* Path::file_stem of the last component: the whole name when it has no
\* "." or only a leading one, else the part before the last ".".
FileStem(path) ==
  LET name == path[Len(path)]
      d == LastDot(name)
  IN IF d <= 1 THEN name ELSE SubSeq(name, 1, d - 1)

\* Path::extension of the last component.
Extension(path) ==
  LET name == path[Len(path)]
      d == LastDot(name)
  IN IF d <= 1 THEN None ELSE Some(SubSeq(name, d + 1, Len(name)))

\* The extension is compared with md byte for byte.
is_markdown_exact(path) ==
  LET ext == Extension(path)
  IN IF ext = None THEN FALSE
     ELSE IF ~IsUtf8(ext[1]) THEN FALSE
     ELSE ext[1] = <<"m", "d">>

\* is_markdown: the extension is valid UTF-8 and equals md in any case.
is_markdown(path) ==
  LET ext == Extension(path)
  IN IF ext = None THEN FALSE
     ELSE IF ~IsUtf8(ext[1]) THEN FALSE
     ELSE EqIgnoreAsciiCase(ext[1], <<"m", "d">>)

\* ------------------------------------------------------------------------
\* Header parser
\* ------------------------------------------------------------------------
IsWhitespace(c) == c \in {" ", "\n", "\r"}

\* str::trim_end_matches(['\r', '\n'])
RECURSIVE TrimEndCRLF(_)
TrimEndCRLF(s) ==
  IF s # <<>> /\ s[Len(s)] \in {"\r", "\n"}
  THEN TrimEndCRLF(SubSeq(s, 1, Len(s) - 1))
  ELSE s

RECURSIVE TrimStart(_)
TrimStart(s) ==
  IF s # <<>> /\ IsWhitespace(Head(s)) THEN TrimStart(Tail(s)) ELSE s

RECURSIVE TrimEnd(_)
TrimEnd(s) ==
  IF s # <<>> /\ IsWhitespace(s[Len(s)])
  THEN TrimEnd(SubSeq(s, 1, Len(s) - 1))
  ELSE s

\* str::trim
Trim(s) == TrimEnd(TrimStart(s))

\* str::split_inclusive('\n'): the segments, each keeping its line break.
RECURSIVE SplitInclusive(_)
SplitInclusive(s) ==
  IF s = <<>> THEN <<>>
  ELSE LET nl == {k \in 1..Len(s) : s[k] = "\n"}
           e == IF nl = {} THEN Len(s) ELSE CHOOSE k \in nl : \A m \in nl : k <= m
       IN <<SubSeq(s, 1, e)>> \o SplitInclusive(SubSeq(s, e + 1, Len(s)))

Delimiter == <<"-", "-", "-">>

NoFields == [description |-> None, argument_hint |-> None,
             allowed_tools |-> None, model |-> None,
             disable_model_invocation |-> None]

\* parse_frontmatter_fields: the YAML decoding of the header block.  Each
\* non-blank line is one symbol: "K" is `model: m`; "U" is a mapping entry
\* with an unsupported key; anything else does not decode to a mapping; a
\* repeated key is rejected by the YAML decoder.
parse_frontmatter_fields(frontmatter) ==
  LET segs == SplitInclusive(frontmatter)
      lines == [k \in 1..Len(segs) |-> Trim(segs[k])]
      used == {k \in 1..Len(lines) : lines[k] # <<>>}
  IN IF \E k \in used : lines[k] \notin {<<"K">>, <<"U">>}
     THEN [ok |-> FALSE, message |-> "frontmatter must be a mapping",
           fields |-> NoFields]
     ELSE IF Cardinality({k \in used : lines[k] = <<"K">>}) > 1
             \/ Cardinality({k \in used : lines[k] = <<"U">>}) > 1
     THEN [ok |-> FALSE, message |-> "invalid frontmatter",
           fields |-> NoFields]
     ELSE IF \E k \in used : lines[k] = <<"U">>
     THEN [ok |-> FALSE, message |-> "unsupported frontmatter field",
           fields |-> NoFields]
     ELSE [ok |-> TRUE, message |-> "",
           fields |-> [NoFields EXCEPT !.model =
                         IF \E k \in used : lines[k] = <<"K">>
                         THEN Some(<<"m">>) ELSE None]]

\* The closing line is not counted as consumed.
RECURSIVE ScanHeaderKeepingClose(_, _, _)
ScanHeaderKeepingClose(segs, frontmatter, consumed) ==
  IF segs = <<>>
  THEN [closed |-> FALSE, frontmatter |-> frontmatter, consumed |-> consumed]
  ELSE IF Trim(TrimEndCRLF(Head(segs))) = Delimiter
  THEN [closed |-> TRUE, frontmatter |-> frontmatter, consumed |-> consumed]
  ELSE ScanHeaderKeepingClose(Tail(segs), frontmatter \o Head(segs),
                              consumed + Len(Head(segs)))

\* The loop of parse_frontmatter over the segments after the first one:
\* [closed, frontmatter, consumed].
RECURSIVE ScanHeader(_, _, _)
ScanHeader(segs, frontmatter, consumed) ==
  IF segs = <<>>
  THEN [closed |-> FALSE, frontmatter |-> frontmatter, consumed |-> consumed]
  ELSE IF Trim(TrimEndCRLF(Head(segs))) = Delimiter
  THEN [closed |-> TRUE, frontmatter |-> frontmatter,
        consumed |-> consumed + Len(Head(segs))]
  ELSE ScanHeader(Tail(segs), frontmatter \o Head(segs),
                  consumed + Len(Head(segs)))

parse_frontmatter(content) ==
  LET segments == SplitInclusive(content)
  IN IF segments = <<>>
     THEN [ok |-> TRUE, message |-> "", body |-> <<>>, fields |-> NoFields]
     ELSE IF Trim(TrimEndCRLF(segments[1])) # Delimiter
     THEN [ok |-> TRUE, message |-> "", body |-> content, fields |-> NoFields]
     ELSE
       LET h == ScanHeader(Tail(segments), <<>>, Len(segments[1]))
           body == IF h.consumed >= Len(content) THEN <<>>
                   ELSE SubSeq(content, h.consumed + 1, Len(content))
           decoded == IF Trim(h.frontmatter) = <<>>
                      THEN [ok |-> TRUE, message |-> "", fields |-> NoFields]
                      ELSE parse_frontmatter_fields(h.frontmatter)
       IN IF ~h.closed
          THEN [ok |-> FALSE, message |-> "unterminated frontmatter block",
                body |-> <<>>, fields |-> NoFields]
          ELSE IF ~decoded.ok
          THEN [ok |-> FALSE, message |-> decoded.message,
                body |-> <<>>, fields |-> NoFields]
          ELSE [ok |-> TRUE, message |-> "", body |-> body,
                fields |-> decoded.fields]

\* ------------------------------------------------------------------------
\* Filesystem snapshots
\* ------------------------------------------------------------------------
\* File contents.
PlainX == <<"x">>
PlainY == <<"y">>
\* ---\nK\n---\ny
WithModel == <<"-", "-", "-", "\n", "K", "\n", "-", "-", "-", "\n", "y">>
\* ---\n---\nx
EmptyHeader == <<"-", "-", "-", "\n", "-", "-", "-", "\n", "x">>
\* ---\nK\n
Unterminated == <<"-", "-", "-", "\n", "K", "\n">>

Node(kind, type_ok, listing, fail_after, target, text, readable) ==
  [kind |-> kind, type_ok |-> type_ok, listing |-> listing,
   fail_after |-> fail_after, target |-> target, content |-> text,
   readable |-> readable]

\* What a path of the snapshot is, by the name fs gives it.
NodeOf(n) ==
  CASE n = "Absent" -> Node("absent", TRUE, "-", 0, "-", <<>>, TRUE)
    [] n = "File(PlainX)" -> Node("file", TRUE, "-", 0, "-", PlainX, TRUE)
    [] n = "File(PlainY)" -> Node("file", TRUE, "-", 0, "-", PlainY, TRUE)
    [] n = "File(WithModel)" -> Node("file", TRUE, "-", 0, "-", WithModel, TRUE)
    [] n = "File(EmptyHeader)" -> Node("file", TRUE, "-", 0, "-", EmptyHeader, TRUE)
    [] n = "File(Unterminated)" -> Node("file", TRUE, "-", 0, "-", Unterminated, TRUE)
    \* read_to_string fails
    [] n = "UnreadableFile" -> Node("file", TRUE, "-", 0, "-", <<>>, FALSE)
    \* entry.file_type() fails
    [] n = "NoFileType" -> Node("file", FALSE, "-", 0, "-", <<>>, TRUE)
    [] n = "Fifo" -> Node("other", TRUE, "-", 0, "-", <<>>, TRUE)
    [] n = "Directory" -> Node("dir", TRUE, "ok", 0, "-", <<>>, TRUE)
    \* read_dir fails
    [] n = "UnreadableDir" -> Node("dir", TRUE, "unreadable", 0, "-", <<>>, TRUE)
    \* next_entry fails once that many entries were returned
    [] n = "BreakingDir(0)" -> Node("dir", TRUE, "breaks", 0, "-", <<>>, TRUE)
    [] n = "BreakingDir(1)" -> Node("dir", TRUE, "breaks", 1, "-", <<>>, TRUE)
    [] n = "SymlinkToFile(PlainY)" -> Node("symlink", TRUE, "-", 0, "file", PlainY, TRUE)
    \* a link to the scope root, an ancestor of the link
    [] n = "SymlinkToDir" -> Node("symlink", TRUE, "-", 0, "dir", <<>>, TRUE)
    [] n = "SymlinkToFifo" -> Node("symlink", TRUE, "-", 0, "other", <<>>, TRUE)
    [] n = "BrokenSymlink" -> Node("symlink", TRUE, "-", 0, "missing", <<>>, TRUE)

\* The project commands root and the user commands root.
ProjectRoot == "p"
UserRoot == "u"

\* The components of each path of the model; "~.md" has a stem that is not
\* valid UTF-8.
Components(p) ==
  LET a == <<"a">>
      barmd == <<"b", "a", "r", ".", "m", "d">>
      fooMD == <<"f", "o", "o", ".", "M", "D">>
      foomd == <<"f", "o", "o", ".", "m", "d">>
      footxt == <<"f", "o", "o", ".", "t", "x", "t">>
      initmd == <<"i", "n", "i", "t", ".", "m", "d">>
      badmd == <<"~", ".", "m", "d">>
  IN CASE p = "p" -> << <<"p">> >>
       [] p = "p/a" -> << <<"p">>, a >>
       [] p = "p/a/foo.md" -> << <<"p">>, a, foomd >>
       [] p = "p/a/init.md" -> << <<"p">>, a, initmd >>
       [] p = "p/bar.md" -> << <<"p">>, barmd >>
       [] p = "p/foo.MD" -> << <<"p">>, fooMD >>
       [] p = "p/foo.md" -> << <<"p">>, foomd >>
       [] p = "p/init.md" -> << <<"p">>, initmd >>
       [] p = "p/~.md" -> << <<"p">>, badmd >>
       [] p = "u" -> << <<"u">> >>
       [] p = "u/bar.md" -> << <<"u">>, barmd >>
       [] p = "u/foo.md" -> << <<"u">>, foomd >>
       [] p = "u/foo.txt" -> << <<"u">>, footxt >>
       [] p = "u/init.md" -> << <<"u">>, initmd >>

\* What each path may be besides its default (a root: a directory; an
\* entry: absent).
Alternatives ==
  [p \in {"p", "p/a", "p/a/foo.md", "p/a/init.md", "p/bar.md", "p/foo.MD",
          "p/foo.md", "p/init.md", "p/~.md", "u", "u/bar.md", "u/foo.md",
          "u/foo.txt", "u/init.md"} |->
     CASE p = "p" -> {"BreakingDir(1)", "UnreadableDir"}
       [] p = "p/a" -> {"Directory", "UnreadableDir", "BreakingDir(0)", "SymlinkToDir"}
       [] p = "p/a/foo.md" -> {"File(EmptyHeader)"}
       [] p = "p/a/init.md" -> {"File(PlainX)"}
       [] p = "p/bar.md" -> {"File(WithModel)", "SymlinkToFile(PlainY)", "BrokenSymlink"}
       [] p = "p/foo.MD" -> {"File(PlainY)", "UnreadableFile"}
       [] p = "p/foo.md" -> {"File(PlainX)", "File(Unterminated)", "NoFileType", "Directory"}
       [] p = "p/init.md" -> {"File(PlainX)"}
       [] p = "p/~.md" -> {"File(PlainX)"}
       [] p = "u" -> {"Absent", "File(PlainX)"}
       [] p = "u/bar.md" -> {"File(PlainX)", "SymlinkToFifo"}
       [] p = "u/foo.md" -> {"File(WithModel)"}
       [] p = "u/foo.txt" -> {"File(PlainX)"}
       [] p = "u/init.md" -> {"File(PlainY)"}]

AllPaths == DOMAIN Alternatives
Roots == {ProjectRoot, UserRoot}
EntryPaths == AllPaths \ Roots

Default(p) == IF p \in Roots THEN "Directory" ELSE "Absent"

\* Path::parent of each entry.
ParentOf ==
  [p \in EntryPaths |->
     CHOOSE q \in AllPaths :
       Components(q) = SubSeq(Components(p), 1, Len(Components(p)) - 1)]

Parent(p) == ParentOf[p]

\* The assignments of a node to each path of P with at most n paths off
\* their default.
RECURSIVE Assignments(_, _)
Assignments(P, n) ==
  IF P = {} THEN { [q \in {} |-> "Absent"] }
  ELSE LET p == CHOOSE q \in P : TRUE
           Put(f, v) == [q \in DOMAIN f \cup {p} |-> IF q = p THEN v ELSE f[q]]
       IN { Put(f, Default(p)) : f \in Assignments(P \ {p}, n) }
            \cup (IF n = 0 THEN {}
                  ELSE UNION { { Put(f, v) : v \in Alternatives[p] } :
                               f \in Assignments(P \ {p}, n - 1) })

\* Every entry lies in a real directory whose listing can be opened.
WellFormed(f) ==
  \A p \in EntryPaths :
    f[p] # "Absent" =>
      /\ NodeOf(f[Parent(p)]).kind = "dir"
      /\ NodeOf(f[Parent(p)]).listing # "unreadable"

\* The snapshots: at most MaxEntries paths are off their default.
Snapshots == { f \in Assignments(AllPaths, MaxEntries) : WellFormed(f) }

\* ------------------------------------------------------------------------
\* Commands, errors, ordering
\* ------------------------------------------------------------------------
RESERVED_COMMAND_NAMES ==
  { <<"m", "o", "d", "e", "l">>,
    <<"p", "e", "r", "s", "o", "n", "a", "l", "i", "t", "y">>,
    <<"a", "p", "p", "r", "o", "v", "a", "l", "s">>,
    <<"p", "e", "r", "m", "i", "s", "s", "i", "o", "n", "s">>,
    <<"s", "e", "t", "u", "p", "-", "e", "l", "e", "v", "a", "t", "e", "d", "-", "s", "a", "n", "d", "b", "o", "x">>,
    <<"e", "x", "p", "e", "r", "i", "m", "e", "n", "t", "a", "l">>,
    <<"s", "k", "i", "l", "l", "s">>,
    <<"r", "e", "v", "i", "e", "w">>,
    <<"n", "e", "w">>,
    <<"r", "e", "s", "u", "m", "e">>,
    <<"f", "o", "r", "k">>,
    <<"i", "n", "i", "t">>,
    <<"c", "o", "m", "p", "a", "c", "t">>,
    <<"c", "o", "l", "l", "a", "b">>,
    <<"a", "g", "e", "n", "t">>,
    <<"d", "i", "f", "f">>,
    <<"m", "e", "n", "t", "i", "o", "n">>,
    <<"s", "t", "a", "t", "u", "s">>,
    <<"m", "c", "p">>,
    <<"l", "o", "g", "o", "u", "t">>,
    <<"q", "u", "i", "t">>,
    <<"e", "x", "i", "t">>,
    <<"f", "e", "e", "d", "b", "a", "c", "k">>,
    <<"r", "o", "l", "l", "o", "u", "t">>,
    <<"p", "s">>,
    <<"t", "e", "s", "t", "-", "a", "p", "p", "r", "o", "v", "a", "l">> }

Scopes == {"User", "Project"}

CustomCommand(name, path, parsed, scope, subdir) ==
  [name |-> name, path |-> path, content |-> parsed.body,
   description |-> parsed.fields.description,
   argument_hint |-> parsed.fields.argument_hint,
   allowed_tools |-> parsed.fields.allowed_tools,
   model |-> parsed.fields.model,
   disable_model_invocation |-> parsed.fields.disable_model_invocation,
   scope |-> scope, scope_subdir |-> subdir]

CustomCommandErrorInfo(path, message) == [path |-> path, message |-> message]

\* Insert x behind every element that does not sort after it (stable).
RECURSIVE InsertByName(_, _)
InsertByName(sorted, x) ==
  IF sorted = <<>> THEN <<x>>
  ELSE IF StrCmp(x.name, Head(sorted).name) < 0 THEN <<x>> \o sorted
  ELSE <<Head(sorted)>> \o InsertByName(Tail(sorted), x)

RECURSIVE FoldByName(_, _)
FoldByName(sorted, rest) ==
  IF rest = <<>> THEN sorted
  ELSE FoldByName(InsertByName(sorted, Head(rest)), Tail(rest))

\* commands.sort_by(|a, b| a.name.cmp(&b.name)): the function leaves
\* the list as it was.
SortByNameSkipped(commands) == commands

\* commands.sort_by(|a, b| a.name.cmp(&b.name)), a stable sort.
SortByName(commands) == FoldByName(<<>>, commands)

RECURSIVE InsertByPath(_, _)
InsertByPath(sorted, x) ==
  IF sorted = <<>> THEN <<x>>
  ELSE IF PathCmp(Components(x.path), Components(Head(sorted).path)) < 0 THEN <<x>> \o sorted
  ELSE <<Head(sorted)>> \o InsertByPath(Tail(sorted), x)

RECURSIVE FoldByPath(_, _)
FoldByPath(sorted, rest) ==
  IF rest = <<>> THEN sorted
  ELSE FoldByPath(InsertByPath(sorted, Head(rest)), Tail(rest))

\* errors.sort_by(|a, b| a.path.cmp(&b.path)), a stable sort.
SortByPath(errors) == FoldByPath(<<>>, errors)

\* path_to_slash: the components joined with "/".
RECURSIVE path_to_slash(_)
path_to_slash(rel) ==
  IF rel = <<>> THEN <<>>
  ELSE IF Len(rel) = 1 THEN Head(rel)
  ELSE Head(rel) \o <<"/">> \o path_to_slash(Tail(rel))

\* scope_subdir: the parent directory relative to the root, None at the root.
scope_subdir(root, path) ==
  LET parent == SubSeq(path, 1, Len(path) - 1)
  IN IF Len(parent) < Len(root) \/ SubSeq(parent, 1, Len(root)) # root
     THEN None
     ELSE IF Len(parent) = Len(root) THEN None
     ELSE Some(path_to_slash(SubSeq(parent, Len(root) + 1, Len(parent))))

\* ------------------------------------------------------------------------
\* State
\* ------------------------------------------------------------------------
VARIABLES
  fs,               \* the filesystem snapshot: path -> node
  user_root,        \* Option<PathBuf> handed to discover_custom_commands_with_roots
  run,              \* 1 for the first discovery call, 2 for the second
  first,            \* the outcome of the first call
  pc,               \* "start", "walk", "merge", "done", or "idle"
  scope,            \* the scope of the walk in progress
  queue,            \* discover_commands_in_root: pending directories
  cur,              \* the directory whose listing is open, or NoneValue
  remaining,        \* entries of cur that next_entry has not returned yet
  commands,         \* discover_commands_in_root: commands
  errors,           \* discover_commands_in_root: errors
  seen,             \* discover_commands_in_root: seen
  user_commands,    \* what the User walk returned
  user_errors,
  project_commands, \* what the Project walk returned
  project_errors,
  outcome,          \* CustomCommandsOutcome of the call, NoneValue before
  visited,          \* history: per scope, the entries in the order visited
  enumerated,       \* history: the directories whose listing was opened
  io_failed,        \* history: the I/O failures met, as [path, op]
  content,          \* expansion: the template
  args,             \* expansion: the positional arguments
  expander,         \* expansion: "command" or "prompt"
  i,                \* expansion: scan position (0-based byte offset)
  out,              \* expansion: text emitted so far
  epc,              \* expansion: "scan", "done" or "idle"; a call: "call",
                    \* "matched", "returned"
  line,             \* a call: the invocation text typed by the user
  catalog,          \* a call: the commands or custom_prompts it looks in
  result            \* a call: what it returned, NoneValue before

discoveryVars ==
  <<fs, user_root, run, first, pc, scope, queue, cur, remaining, commands,
    errors, seen, user_commands, user_errors, project_commands,
    project_errors, outcome, visited, enumerated, io_failed>>
expansionVars == <<content, args, expander, i, out, epc>>
callVars == <<line, catalog, result>>
vars == <<discoveryVars, expansionVars, callVars>>

\* ------------------------------------------------------------------------
\* discover_commands_in_root
\* ------------------------------------------------------------------------
Message(text, name, scp) == [text |-> text, name |-> name, scope |-> scp]

\* The entries of a directory of the snapshot.
Children(dir) ==
  { p \in EntryPaths : Parent(p) = dir /\ fs[p] # "Absent" }

\* The node at a path of the snapshot.
NodeAt(p) == NodeOf(fs[p])

RootOf(scp) == IF scp = "User" THEN user_root ELSE ProjectRoot

\* fs::metadata(root).map(|m| m.is_dir()).unwrap_or(false); metadata
\* follows symlinks and fails on a missing path.
RootIsDir(root) ==
  \/ NodeAt(root).kind = "dir"
  \/ NodeAt(root).kind = "symlink" /\ NodeAt(root).target = "dir"

\* file_type.is_dir() answered through the link target, as fs::metadata
\* would answer it.
is_dir_following_links(node) ==
  node.kind = "dir" \/ (node.kind = "symlink" /\ node.target = "dir")

\* file_type.is_dir() of a directory entry: the entry itself, links are
\* not followed.
is_dir(node) == node.kind = "dir"

\* The reserved-name test never matches.
NeverReserved(name) == FALSE

\* RESERVED_COMMAND_NAMES.contains(&name.as_str())
IsReservedName(name) == name \in RESERVED_COMMAND_NAMES

\* No name counts as seen.
NeverSeen(names, name) == FALSE

\* !seen.insert(name.clone()): the name is in the set already.
AlreadySeen(names, name) == name \in names

\* The walk state of discover_commands_in_root before the first entry.
EmptyWalk == [queue |-> <<>>, commands |-> <<>>, errors |-> <<>>,
              seen |-> {}, io |-> {}]

\* The body of the `while let Ok(Some(entry))` loop for one entry.
VisitEntry(w, path, scp, root) ==
  LET node == NodeAt(path)
      Fail(text, name, s, io) ==
        [w EXCEPT !.errors = Append(@, CustomCommandErrorInfo(
                                          path, Message(text, name, s))),
                  !.io = io]
      Skip == [w EXCEPT !.io = {}]
      is_file == IF node.kind = "symlink" THEN node.target = "file"
                 ELSE node.kind = "file"
      name == FileStem(Components(path))
      parsed == parse_frontmatter(node.content)
  IN IF ~node.type_ok
     THEN Fail("failed to read command file type", <<>>, "",
               {[path |-> path, op |-> "file_type"]})
     ELSE IF is_dir(node)
     THEN [w EXCEPT !.queue = Append(@, path), !.io = {}]
     ELSE IF node.kind = "symlink" /\ node.target = "missing"
     THEN Fail("failed to resolve command symlink", <<>>, "",
               {[path |-> path, op |-> "metadata"]})
     ELSE IF node.kind = "symlink" /\ node.target = "dir" THEN Skip
     ELSE IF ~is_file THEN Skip
     ELSE IF ~is_markdown(Components(path)) THEN Skip
     ELSE IF ~IsUtf8(name)
     THEN Fail("command filename is not valid UTF-8", <<>>, "", {})
     ELSE IF IsReservedName(name)
     THEN Fail("conflicts with a built-in command name", name, "", {})
     ELSE IF AlreadySeen(w.seen, name)
     THEN Fail("duplicate command name", name, scp, {})
     ELSE IF ~node.readable
     THEN [Fail("failed to read command file", <<>>, "",
                {[path |-> path, op |-> "read_to_string"]})
             EXCEPT !.seen = @ \cup {name}]
     ELSE IF ~parsed.ok
     THEN [Fail(parsed.message, <<>>, "", {}) EXCEPT !.seen = @ \cup {name}]
     ELSE [w EXCEPT !.seen = @ \cup {name}, !.io = {},
                    !.commands = Append(@, CustomCommand(
                       name, path, parsed, scp, scope_subdir(Components(root), Components(path))))]

\* The directory a path names once links are followed.
RealDir(dir) ==
  IF NodeAt(dir).kind = "symlink"
  THEN (IF Components(dir)[1] = Components(ProjectRoot)[1]
        THEN ProjectRoot ELSE UserRoot)
  ELSE dir

ResetWalk ==
  /\ queue' = <<>>
  /\ cur' = NoneValue
  /\ remaining' = {}
  /\ commands' = <<>>
  /\ errors' = <<>>
  /\ seen' = {}

\* discover_commands_in_root returns (cmds, errs) to
\* discover_custom_commands_with_roots, which goes on to the Project walk
\* or to the merge.
Return(cmds, errs) ==
  /\ ResetWalk
  /\ IF scope = "User"
     THEN /\ user_commands' = cmds
          /\ user_errors' = errs
          /\ scope' = "Project"
          /\ pc' = "start"
          /\ UNCHANGED <<project_commands, project_errors>>
     ELSE /\ project_commands' = cmds
          /\ project_errors' = errs
          /\ pc' = "merge"
          /\ UNCHANGED <<scope, user_commands, user_errors>>

\* Where the call stands: the guards of its steps.
AtEntry == pc = "start"
AtPop == pc = "walk" /\ cur = NoneValue /\ queue # <<>>
AtListing == pc = "walk" /\ cur # NoneValue
AtReturn == pc = "walk" /\ cur = NoneValue /\ queue = <<>>
AtMerge == pc = "merge"
AtSecondCall == pc = "done" /\ run = 1

\* Entry of discover_commands_in_root: no root or a root that is not a
\* directory returns at once, else the root is the first pending directory.
EnterRoot ==
  /\ AtEntry
  /\ \/ /\ RootOf(scope) = NoneValue
        /\ Return(<<>>, <<>>)
     \/ /\ RootOf(scope) # NoneValue
        /\ ~RootIsDir(RootOf(scope))
        /\ Return(<<>>, <<>>)
     \/ /\ RootOf(scope) # NoneValue
        /\ RootIsDir(RootOf(scope))
        /\ queue' = <<RootOf(scope)>>
        /\ pc' = "walk"
        /\ UNCHANGED <<scope, cur, remaining, commands, errors, seen,
                       user_commands, user_errors, project_commands,
                       project_errors>>
  /\ UNCHANGED <<fs, user_root, run, first, outcome, visited, enumerated,
                 io_failed, expansionVars, callVars>>

\* queue.pop() and fs::read_dir(&dir).
ReadDir ==
  /\ AtPop
  /\ LET dir == queue[Len(queue)]
     IN /\ queue' = SubSeq(queue, 1, Len(queue) - 1)
        /\ \/ /\ NodeAt(RealDir(dir)).listing = "unreadable"
              /\ errors' = Append(errors, CustomCommandErrorInfo(
                     dir, Message("failed to read commands directory", <<>>, "")))
              /\ io_failed' = io_failed \cup {[path |-> dir, op |-> "read_dir"]}
              /\ UNCHANGED <<cur, remaining, enumerated>>
           \/ /\ NodeAt(RealDir(dir)).listing # "unreadable"
              /\ cur' = RealDir(dir)
              /\ remaining' = Children(RealDir(dir))
              /\ enumerated' = Append(enumerated, RealDir(dir))
              /\ UNCHANGED <<errors, io_failed>>
  /\ UNCHANGED <<fs, user_root, run, first, pc, scope, commands, seen,
                 user_commands, user_errors, project_commands, project_errors,
                 outcome, visited, expansionVars, callVars>>

\* next_entry() fails here: the listing of cur breaks after fail_after
\* entries.
BreaksNow ==
  /\ NodeAt(cur).listing = "breaks"
  /\ Cardinality(Children(cur)) - Cardinality(remaining) = NodeAt(cur).fail_after

\* The walk state once the loop body has run for entry.
Visited(entry) ==
  VisitEntry([queue |-> queue, commands |-> commands, errors |-> errors,
              seen |-> seen, io |-> {}],
             entry, scope, RootOf(scope))

\* entries.next_entry() returns Ok(Some(entry)) and the loop body runs.
NextEntry ==
  /\ AtListing
  /\ ~BreaksNow
  /\ \E entry \in remaining :
       /\ remaining' = remaining \ {entry}
       /\ queue' = Visited(entry).queue
       /\ commands' = Visited(entry).commands
       /\ errors' = Visited(entry).errors
       /\ seen' = Visited(entry).seen
       /\ io_failed' = io_failed \cup Visited(entry).io
       /\ visited' = [visited EXCEPT ![scope] = Append(@, entry)]
  /\ UNCHANGED <<fs, user_root, run, first, pc, scope, cur, user_commands,
                 user_errors, project_commands, project_errors, outcome,
                 enumerated, expansionVars, callVars>>

\* entries.next_entry() returns Ok(None) or Err(_): `while let` ends the
\* listing in both cases.
ListingEnds ==
  /\ AtListing
  /\ \/ /\ BreaksNow
        /\ io_failed' = io_failed \cup {[path |-> cur, op |-> "next_entry"]}
     \/ /\ ~BreaksNow
        /\ remaining = {}
        /\ UNCHANGED io_failed
  /\ cur' = NoneValue
  /\ remaining' = {}
  /\ UNCHANGED <<fs, user_root, run, first, pc, scope, queue, commands, errors,
                 seen, user_commands, user_errors, project_commands,
                 project_errors, outcome, visited, enumerated, expansionVars, callVars>>

\* The work stack is empty: sort the commands by name and return.
ReturnWalk ==
  /\ AtReturn
  /\ Return(SortByName(commands), errors)
  /\ UNCHANGED <<fs, user_root, run, first, outcome, visited, enumerated,
                 io_failed, expansionVars, callVars>>

\* ------------------------------------------------------------------------
\* discover_custom_commands_with_roots: the merge
\* ------------------------------------------------------------------------
\* HashMap::insert
MapInsert(map, name, command) ==
  [n \in DOMAIN map \cup {name} |-> IF n = name THEN command ELSE map[n]]

\* for command in project_commands { project_by_name.insert(..) }
RECURSIVE InsertAll(_, _)
InsertAll(map, cmds) ==
  IF cmds = <<>> THEN map
  ELSE InsertAll(MapInsert(map, Head(cmds).name, Head(cmds)), Tail(cmds))

EmptyMap == [n \in {} |-> NoneValue]

\* The orders in which HashMap::values may iterate.
ValueOrders(map) ==
  { o \in [1..Cardinality(DOMAIN map) -> DOMAIN map] :
      \A a, b \in DOMAIN o : a # b => o[a] # o[b] }

\* The User entry is kept whatever the Project scope holds.
NeverShadowed(project_by_name, command) == FALSE

\* project_by_name.contains_key(&command.name)
Shadowed(project_by_name, command) == command.name \in DOMAIN project_by_name

\* Lines 90-96: the Project entries, then the User entries not shadowed.
MergeCatalog(project_by_name, order, user_cmds) ==
  LET Kept(command) == ~Shadowed(project_by_name, command)
  IN [k \in DOMAIN order |-> project_by_name[order[k]]]
       \o SelectSeq(user_cmds, Kept)

\* project_by_name once every Project command is inserted.
ProjectByName == InsertAll(EmptyMap, project_commands)

Merge ==
  /\ AtMerge
  /\ \E order \in ValueOrders(ProjectByName) :
       outcome' =
         [commands |-> SortByName(
                         MergeCatalog(ProjectByName, order, user_commands)),
          errors |-> SortByPath(user_errors \o project_errors)]
  /\ pc' = "done"
  /\ UNCHANGED <<fs, user_root, run, first, scope, queue, cur, remaining,
                 commands, errors, seen, user_commands, user_errors,
                 project_commands, project_errors, visited, enumerated,
                 io_failed, expansionVars, callVars>>

NoVisits == [s \in Scopes |-> <<>>]

\* A second discovery call over the same snapshot.
CallAgain ==
  /\ AtSecondCall
  /\ run' = 2
  /\ first' = outcome
  /\ pc' = "start"
  /\ scope' = "User"
  /\ ResetWalk
  /\ user_commands' = <<>>
  /\ user_errors' = <<>>
  /\ project_commands' = <<>>
  /\ project_errors' = <<>>
  /\ outcome' = NoneValue
  /\ visited' = NoVisits
  /\ enumerated' = <<>>
  /\ io_failed' = {}
  /\ UNCHANGED <<fs, user_root, expansionVars, callVars>>

CallIdle ==
  /\ line = <<>>
  /\ catalog = <<>>
  /\ result = NoneValue

ExpansionIdle ==
  /\ CallIdle
  /\ content = <<>>
  /\ args = <<>>
  /\ expander = "idle"
  /\ i = 0
  /\ out = <<>>
  /\ epc = "idle"

\* ------------------------------------------------------------------------
\* Numeric placeholder expansion
\* ------------------------------------------------------------------------
ArgumentsWord == <<"A", "R", "G", "U", "M", "E", "N", "T", "S">>

\* args.join(" ")
RECURSIVE Join(_)
Join(list) ==
  IF list = <<>> THEN <<>>
  ELSE IF Len(list) = 1 THEN Head(list)
  ELSE Head(list) \o <<" ">> \o Join(Tail(list))

\* content[i..].find('$'): the 0-based offset j of the first "$" at or
\* after offset i, -1 when there is none.
FindDollar(text, from) ==
  LET at == {k \in (from + 1)..Len(text) : text[k] = "$"}
  IN IF at = {} THEN -1
     ELSE (CHOOSE k \in at : \A m \in at : k <= m) - 1

\* b'1'..=b'9'
IsPlaceholderDigit(b) == Byte(b) \in Byte("1")..(Byte("1") + 8)

\* The digit is taken as the index itself.
PositionalArgShifted(list, b) ==
  LET idx == Byte(b) - Byte("1") + 1
  IN IF idx < Len(list) THEN list[idx + 1] ELSE <<>>

\* idx = bytes[1] - b'1'; args.get(idx), nothing pushed when it is None.
PositionalArg(list, b) ==
  LET idx == Byte(b) - Byte("1")
  IN IF idx < Len(list) THEN list[idx + 1] ELSE <<>>

\* The length test asks for one more byte after the word.
StartsWithArgumentsAndMore(rest) ==
  /\ Len(rest) > Len(ArgumentsWord) + 1
  /\ SubSeq(rest, 2, 1 + Len(ArgumentsWord)) = ArgumentsWord

\* rest.len() > "ARGUMENTS".len() && rest[1..].starts_with("ARGUMENTS")
StartsWithArguments(rest) ==
  /\ Len(rest) > Len(ArgumentsWord)
  /\ SubSeq(rest, 2, 1 + Len(ArgumentsWord)) = ArgumentsWord

\* The `$$` arm emits a single "$".
CommandScanStepCollapsing(text, list, from, emitted) ==
  LET j == FindDollar(text, from)
      before == emitted \o SubSeq(text, from + 1, j)
      rest == SubSeq(text, j + 1, Len(text))
  IN IF j < 0
     THEN [i |-> Len(text), out |-> emitted \o SubSeq(text, from + 1, Len(text)),
           branch |-> "tail"]
     ELSE IF Len(rest) >= 2 /\ rest[2] = "$"
     THEN [i |-> j + 2, out |-> before \o <<"$">>, branch |-> "escape"]
     ELSE IF Len(rest) >= 2 /\ IsPlaceholderDigit(rest[2])
     THEN [i |-> j + 2,
           out |-> before \o PositionalArg(list, rest[2]),
           branch |-> "positional"]
     ELSE IF StartsWithArguments(rest)
     THEN [i |-> j + 1 + Len(ArgumentsWord),
           out |-> IF list # <<>> THEN before \o Join(list) ELSE before,
           branch |-> "arguments"]
     ELSE [i |-> j + 1, out |-> before \o <<"$">>, branch |-> "literal"]

\* One pass of the `while let Some(off)` loop of expand_placeholders, or
\* the final push of the tail: [i, out, branch].
CommandScanStep(text, list, from, emitted) ==
  LET j == FindDollar(text, from)
      before == emitted \o SubSeq(text, from + 1, j)
      rest == SubSeq(text, j + 1, Len(text))
  IN IF j < 0
     THEN [i |-> Len(text), out |-> emitted \o SubSeq(text, from + 1, Len(text)),
           branch |-> "tail"]
     ELSE IF Len(rest) >= 2 /\ rest[2] = "$"
     THEN [i |-> j + 2, out |-> before \o <<"$", "$">>, branch |-> "escape"]
     ELSE IF Len(rest) >= 2 /\ IsPlaceholderDigit(rest[2])
     THEN [i |-> j + 2,
           out |-> before \o PositionalArg(list, rest[2]),
           branch |-> "positional"]
     ELSE IF StartsWithArguments(rest)
     THEN [i |-> j + 1 + Len(ArgumentsWord),
           out |-> IF list # <<>> THEN before \o Join(list) ELSE before,
           branch |-> "arguments"]
     ELSE [i |-> j + 1, out |-> before \o <<"$">>, branch |-> "literal"]

\* The scan advances past "$ARGUMENT", one byte short of the word.
PromptScanStepShort(text, list, from, emitted) ==
  LET j == FindDollar(text, from)
      before == emitted \o SubSeq(text, from + 1, j)
      rest == SubSeq(text, j + 1, Len(text))
  IN IF j < 0
     THEN [i |-> Len(text), out |-> emitted \o SubSeq(text, from + 1, Len(text)),
           branch |-> "tail"]
     ELSE IF Len(rest) >= 2 /\ rest[2] = "$"
     THEN [i |-> j + 2, out |-> before \o <<"$", "$">>, branch |-> "escape"]
     ELSE IF Len(rest) >= 2 /\ IsPlaceholderDigit(rest[2])
     THEN [i |-> j + 2,
           out |-> before \o PositionalArg(list, rest[2]),
           branch |-> "positional"]
     ELSE IF StartsWithArguments(rest)
     THEN [i |-> j + Len(ArgumentsWord),
           out |-> IF list # <<>> THEN before \o Join(list) ELSE before,
           branch |-> "arguments"]
     ELSE [i |-> j + 1, out |-> before \o <<"$">>, branch |-> "literal"]

\* One pass of the loop of expand_numeric_placeholders, or the final push
\* of the tail.
PromptScanStep(text, list, from, emitted) ==
  LET j == FindDollar(text, from)
      before == emitted \o SubSeq(text, from + 1, j)
      rest == SubSeq(text, j + 1, Len(text))
  IN IF j < 0
     THEN [i |-> Len(text), out |-> emitted \o SubSeq(text, from + 1, Len(text)),
           branch |-> "tail"]
     ELSE IF Len(rest) >= 2 /\ rest[2] = "$"
     THEN [i |-> j + 2, out |-> before \o <<"$", "$">>, branch |-> "escape"]
     ELSE IF Len(rest) >= 2 /\ IsPlaceholderDigit(rest[2])
     THEN [i |-> j + 2,
           out |-> before \o PositionalArg(list, rest[2]),
           branch |-> "positional"]
     ELSE IF StartsWithArguments(rest)
     THEN [i |-> j + 1 + Len(ArgumentsWord),
           out |-> IF list # <<>> THEN before \o Join(list) ELSE before,
           branch |-> "arguments"]
     ELSE [i |-> j + 1, out |-> before \o <<"$">>, branch |-> "literal"]

\* expand_placeholders(content, args)
RECURSIVE ExpandFrom(_, _, _, _)
ExpandFrom(text, list, from, emitted) ==
  LET r == CommandScanStep(text, list, from, emitted)
  IN IF r.branch = "tail" THEN r.out ELSE ExpandFrom(text, list, r.i, r.out)

expand_placeholders(text, list) == ExpandFrom(text, list, 0, <<>>)

\* expand_numeric_placeholders(content, args)
RECURSIVE ExpandNumericFrom(_, _, _, _)
ExpandNumericFrom(text, list, from, emitted) ==
  LET r == PromptScanStep(text, list, from, emitted)
  IN IF r.branch = "tail" THEN r.out ELSE ExpandNumericFrom(text, list, r.i, r.out)

expand_numeric_placeholders(text, list) == ExpandNumericFrom(text, list, 0, <<>>)

\* The pieces templates are concatenated from, and the argument values.
Pieces == { <<"$">>, <<"1">>, <<"2">>, <<"0">>, <<"x">>, ArgumentsWord }
ArgValues == { <<"a">>, <<"$", "1">> }

RECURSIVE Flatten(_)
Flatten(ps) == IF ps = <<>> THEN <<>> ELSE Head(ps) \o Flatten(Tail(ps))

Templates == { Flatten(ps) : ps \in UNION { [1..n -> Pieces] : n \in 0..MaxPieces } }
ArgLists == UNION { [1..n -> ArgValues] : n \in 0..MaxArgs }

DiscoveryIdle ==
  /\ fs = [p \in AllPaths |-> Default(p)]
  /\ user_root = NoneValue
  /\ run = 1
  /\ first = NoneValue
  /\ pc = "idle"
  /\ scope = "User"
  /\ queue = <<>>
  /\ cur = NoneValue
  /\ remaining = {}
  /\ commands = <<>>
  /\ errors = <<>>
  /\ seen = {}
  /\ user_commands = <<>>
  /\ user_errors = <<>>
  /\ project_commands = <<>>
  /\ project_errors = <<>>
  /\ outcome = NoneValue
  /\ visited = [s \in Scopes |-> <<>>]
  /\ enumerated = <<>>
  /\ io_failed = {}

InitExpand ==
  /\ DiscoveryIdle
  /\ CallIdle
  /\ content \in Templates
  /\ args \in ArgLists
  /\ expander \in {"command", "prompt"}
  /\ i = 0
  /\ out = <<>>
  /\ epc = "scan"

ScanStep ==
  IF expander = "command" THEN CommandScanStep(content, args, i, out)
  ELSE PromptScanStep(content, args, i, out)

\* One pass of the scan loop: a "$" is found and classified.
Scan ==
  /\ epc = "scan"
  /\ ScanStep.branch # "tail"
  /\ i' = ScanStep.i
  /\ out' = ScanStep.out
  /\ UNCHANGED <<content, args, expander, epc, discoveryVars, callVars>>

\* No "$" is left: the tail is pushed and the text returned.
Finish ==
  /\ epc = "scan"
  /\ ScanStep.branch = "tail"
  /\ i' = ScanStep.i
  /\ out' = ScanStep.out
  /\ epc' = "done"
  /\ UNCHANGED <<content, args, expander, discoveryVars, callVars>>

NextExpand == Scan \/ Finish

SpecExpand == InitExpand /\ [][NextExpand]_vars

\* ------------------------------------------------------------------------
\* Invocation matching and the tokenizer
\* ------------------------------------------------------------------------
\* The 0-based offset of the first whitespace character of s, Len(s) when
\* there is none.
FirstWhitespace(s) ==
  LET ws == {k \in 1..Len(s) : IsWhitespace(s[k])}
  IN IF ws = {} THEN Len(s)
     ELSE (CHOOSE k \in ws : \A m \in ws : k <= m) - 1

\* custom_command_expansion.rs parse_slash_name: None, or Some of the name
\* and the rest of the text.
parse_slash_name(t) ==
  IF t = <<>> \/ Head(t) # "/" THEN None
  ELSE LET stripped == Tail(t)
           name_end == FirstWhitespace(stripped)
           name == SubSeq(stripped, 1, name_end)
           rest_untrimmed == SubSeq(stripped, name_end + 1, Len(stripped))
       IN IF name = <<>> THEN None
          ELSE Some([name |-> name, rest |-> TrimStart(rest_untrimmed)])

\* custom_prompt_expansion.rs parse_slash_name
prompt_parse_slash_name(t) ==
  IF t = <<>> \/ Head(t) # "/" THEN None
  ELSE LET stripped == Tail(t)
           name_end == FirstWhitespace(stripped)
           name == SubSeq(stripped, 1, name_end)
           rest_untrimmed == SubSeq(stripped, name_end + 1, Len(stripped))
       IN IF name = <<>> THEN None
          ELSE Some([name |-> name, rest |-> TrimStart(rest_untrimmed)])

\* str::split_whitespace
RECURSIVE SplitWhitespace(_)
SplitWhitespace(s) ==
  LET t == TrimStart(s)
      e == FirstWhitespace(t)
  IN IF t = <<>> THEN <<>>
     ELSE <<SubSeq(t, 1, e)>> \o SplitWhitespace(SubSeq(t, e + 1, Len(t)))

\* shlex::split(rest), else the whitespace split.  The invocation texts of
\* the model hold no quote, backslash or "#": on these shlex::split
\* succeeds and yields the whitespace-separated words.
parse_tokens(rest) == SplitWhitespace(rest)

\* custom_command_expansion.rs parse_positional_args
parse_positional_args(rest) == SplitWhitespace(rest)

\* custom_prompt_expansion.rs parse_positional_args
prompt_parse_positional_args(rest) ==
  IF Trim(rest) = <<>> THEN <<>> ELSE parse_tokens(rest)

MissingAssignment(token) == [kind |-> "MissingAssignment", token |-> token]
MissingKey(token) == [kind |-> "MissingKey", token |-> token]

\* A token that is not key=value is passed over.
RECURSIVE ParseInputsLenient(_, _)
ParseInputsLenient(tokens, map) ==
  IF tokens = <<>> THEN [ok |-> TRUE, map |-> map]
  ELSE LET token == Head(tokens)
           eq == {k \in 1..Len(token) : token[k] = "="}
           at == CHOOSE k \in eq : \A m \in eq : k <= m
           key == SubSeq(token, 1, at - 1)
           value == SubSeq(token, at + 1, Len(token))
       IN IF eq = {} \/ key = <<>>
          THEN ParseInputsLenient(Tail(tokens), map)
          ELSE ParseInputsLenient(Tail(tokens), MapInsert(map, key, value))

\* The loop of parse_prompt_inputs over the tokens.
RECURSIVE ParseInputsFrom(_, _)
ParseInputsFrom(tokens, map) ==
  IF tokens = <<>> THEN [ok |-> TRUE, map |-> map]
  ELSE LET token == Head(tokens)
           eq == {k \in 1..Len(token) : token[k] = "="}
           at == CHOOSE k \in eq : \A m \in eq : k <= m
           key == SubSeq(token, 1, at - 1)
           value == SubSeq(token, at + 1, Len(token))
       IN IF eq = {}
          THEN [ok |-> FALSE, error |-> MissingAssignment(token)]
          ELSE IF key = <<>>
          THEN [ok |-> FALSE, error |-> MissingKey(token)]
          ELSE ParseInputsFrom(Tail(tokens), MapInsert(map, key, value))

\* parse_prompt_inputs(rest): Ok(map) or Err(PromptArgsError)
parse_prompt_inputs(rest) ==
  IF Trim(rest) = <<>> THEN [ok |-> TRUE, map |-> EmptyMap]
  ELSE ParseInputsFrom(parse_tokens(rest), EmptyMap)

\* ------------------------------------------------------------------------
\* Named placeholders
\* ------------------------------------------------------------------------
\* [A-Z] and [A-Z0-9_]
IsUpper(c) == c # "_" /\ Byte(c) \in Byte("A")..(Byte("A") + 25)
IsNameByte(c) ==
  c = "_" \/ IsUpper(c) \/ Byte(c) \in Byte("0")..(Byte("0") + 9)

\* The end (exclusive, 0-based) of the run of [A-Z0-9_] that holds offset e.
RECURSIVE NameEnd(_, _)
NameEnd(text, e) ==
  IF e < Len(text) /\ IsNameByte(text[e + 1]) THEN NameEnd(text, e + 1) ELSE e

\* PROMPT_ARG_REGEX.find_iter(content): the non-overlapping matches of
\* \$[A-Z][A-Z0-9_]* from offset `from` on, leftmost first, as [start, end).
RECURSIVE FindIter(_, _)
FindIter(text, from) ==
  LET starts == {k \in from..(Len(text) - 2) :
                   text[k + 1] = "$" /\ IsUpper(text[k + 2])}
      st == CHOOSE k \in starts : \A m \in starts : k <= m
      en == NameEnd(text, st + 2)
  IN IF starts = {} THEN <<>>
     ELSE <<[start |-> st, end |-> en]>> \o FindIter(text, en)

\* A match that follows a "$" is taken like any other.
RECURSIVE ArgumentNamesWithEscaped(_, _, _)
ArgumentNamesWithEscaped(text, matches, names) ==
  IF matches = <<>> THEN names
  ELSE LET m == Head(matches)
           name == SubSeq(text, m.start + 2, m.end)
       IN IF name = ArgumentsWord
          THEN ArgumentNamesWithEscaped(text, Tail(matches), names)
          ELSE IF \E k \in DOMAIN names : names[k] = name
          THEN ArgumentNamesWithEscaped(text, Tail(matches), names)
          ELSE ArgumentNamesWithEscaped(text, Tail(matches), Append(names, name))

\* The loop of prompt_argument_names over the matches.
RECURSIVE ArgumentNamesFrom(_, _, _)
ArgumentNamesFrom(text, matches, names) ==
  IF matches = <<>> THEN names
  ELSE LET m == Head(matches)
           name == SubSeq(text, m.start + 2, m.end)
       IN IF m.start > 0 /\ text[m.start] = "$"
          THEN ArgumentNamesFrom(text, Tail(matches), names)
          ELSE IF name = ArgumentsWord
          THEN ArgumentNamesFrom(text, Tail(matches), names)
          ELSE IF \E k \in DOMAIN names : names[k] = name
          THEN ArgumentNamesFrom(text, Tail(matches), names)
          ELSE ArgumentNamesFrom(text, Tail(matches), Append(names, name))

\* The names come out last occurrence first.
prompt_argument_names_reversed(text) ==
  LET names == ArgumentNamesFrom(text, FindIter(text, 0), <<>>)
  IN [k \in 1..Len(names) |-> names[Len(names) + 1 - k]]

prompt_argument_names(text) == ArgumentNamesFrom(text, FindIter(text, 0), <<>>)

\* The loop of expand_named_placeholders over the matches: the text
\* emitted and the cursor.
RECURSIVE ExpandNamedFrom(_, _, _, _, _)
ExpandNamedFrom(text, inputs, matches, cursor, emitted) ==
  IF matches = <<>>
  THEN emitted \o SubSeq(text, cursor + 1, Len(text))
  ELSE LET m == Head(matches)
           key == SubSeq(text, m.start + 2, m.end)
       IN IF m.start > 0 /\ text[m.start] = "$"
          THEN ExpandNamedFrom(text, inputs, Tail(matches), m.end,
                               emitted \o SubSeq(text, cursor + 1, m.end))
          ELSE ExpandNamedFrom(text, inputs, Tail(matches), m.end,
                 emitted \o SubSeq(text, cursor + 1, m.start)
                   \o (IF key \in DOMAIN inputs THEN inputs[key]
                       ELSE SubSeq(text, m.start + 1, m.end)))

\* The output is scanned once more.
expand_named_placeholders_again(text, inputs) ==
  LET once == ExpandNamedFrom(text, inputs, FindIter(text, 0), 0, <<>>)
  IN ExpandNamedFrom(once, inputs, FindIter(once, 0), 0, <<>>)

expand_named_placeholders(text, inputs) ==
  ExpandNamedFrom(text, inputs, FindIter(text, 0), 0, <<>>)

\* ------------------------------------------------------------------------
\* expand_custom_command and expand_custom_prompt_text
\* ------------------------------------------------------------------------
\* PROMPTS_CMD_PREFIX and the ":" after it
PromptsPrefix == <<"p", "r", "o", "m", "p", "t", "s", ":">>

\* str::strip_prefix
StripPrefix(s, prefix) ==
  IF Len(s) >= Len(prefix) /\ SubSeq(s, 1, Len(prefix)) = prefix
  THEN Some(SubSeq(s, Len(prefix) + 1, Len(s)))
  ELSE None

\* The last entry with the name is taken.
FindLast(entries, name) ==
  LET at == {k \in DOMAIN entries : entries[k].name = name}
  IN IF at = {} THEN None
     ELSE Some(entries[CHOOSE k \in at : \A m \in at : k >= m])

\* iter().find(|c| c.name == name): the first entry with the name.
Find(entries, name) ==
  LET at == {k \in DOMAIN entries : entries[k].name = name}
  IN IF at = {} THEN None
     ELSE Some(entries[CHOOSE k \in at : \A m \in at : k <= m])

\* A catalog entry as the callers build them: a command, a prompt.
command(name, body) ==
  CustomCommand(name, "dummy",
                [body |-> body, fields |-> NoFields], "User", None)
prompt(name, body) ==
  [name |-> name, path |-> "dummy", content |-> body,
   description |-> None, argument_hint |-> None]

\* What a call returns.
NoExpansion == [tag |-> "None"]
CustomCommandExpansion(expanded, cmd) ==
  [tag |-> "Some", text |-> expanded, command |-> cmd]
OkNone == [tag |-> "Ok(None)"]
OkSome(expanded) == [tag |-> "Ok(Some)", text |-> expanded]
ErrArgs(cmd, error) == [tag |-> "Err(Args)", command |-> cmd, error |-> error]
ErrMissingArgs(cmd, missing) ==
  [tag |-> "Err(MissingArgs)", command |-> cmd, missing |-> missing]

\* expand_custom_command up to the lookup: the name and rest of the text,
\* and the entry found.
CommandLookup ==
  LET parsed == parse_slash_name(TrimStart(line))
  IN IF parsed = None THEN None
     ELSE LET found == Find(catalog, parsed[1].name)
          IN IF found = None THEN None
             ELSE Some([name |-> parsed[1].name, rest |-> parsed[1].rest,
                        entry |-> found[1]])

\* expand_custom_prompt_text up to the lookup.
PromptLookup ==
  LET parsed == prompt_parse_slash_name(TrimStart(line))
  IN IF parsed = None THEN None
     ELSE LET prompt_name == StripPrefix(parsed[1].name, PromptsPrefix)
          IN IF prompt_name = None THEN None
             ELSE LET found == Find(catalog, prompt_name[1])
                  IN IF found = None THEN None
                     ELSE Some([name |-> parsed[1].name,
                                rest |-> parsed[1].rest,
                                entry |-> found[1]])

\* expand_custom_command: the text is trimmed and parsed and the command
\* looked up; None when either fails.
MatchCommand ==
  /\ epc = "call"
  /\ expander = "command"
  /\ IF CommandLookup = None
     THEN /\ result' = NoExpansion
          /\ epc' = "none"
          /\ content' = content
     ELSE /\ result' = result
          /\ epc' = "matched"
          /\ content' = CommandLookup[1].entry.content
  /\ UNCHANGED <<args, expander, i, out, line, catalog, discoveryVars>>

\* expand_custom_command: the arguments are split and the content expanded.
ExpandCommand ==
  /\ epc = "matched"
  /\ expander = "command"
  /\ args' = parse_positional_args(CommandLookup[1].rest)
  /\ out' = expand_placeholders(content, args')
  /\ result' = CustomCommandExpansion(out', CommandLookup[1].entry)
  /\ epc' = "numeric"
  /\ UNCHANGED <<content, expander, i, line, catalog, discoveryVars>>

\* expand_custom_prompt_text: the text is trimmed and parsed, the prefix
\* stripped and the prompt looked up; Ok(None) when any of these fails.
MatchPrompt ==
  /\ epc = "call"
  /\ expander = "prompt"
  /\ IF PromptLookup = None
     THEN /\ result' = OkNone
          /\ epc' = "none"
          /\ content' = content
     ELSE /\ result' = result
          /\ epc' = "matched"
          /\ content' = PromptLookup[1].entry.content
  /\ UNCHANGED <<args, expander, i, out, line, catalog, discoveryVars>>

\* expand_custom_prompt_text, `if !required.is_empty()`: the inputs are
\* parsed, the required names checked and the content expanded.
NamedDialect ==
  /\ epc = "matched"
  /\ expander = "prompt"
  /\ prompt_argument_names(content) # <<>>
  /\ LET required == prompt_argument_names(content)
         inputs == parse_prompt_inputs(PromptLookup[1].rest)
         cmd == <<"/">> \o PromptLookup[1].name
         missing == SelectSeq(required, LAMBDA key : key \notin DOMAIN inputs.map)
     IN IF ~inputs.ok
        THEN result' = ErrArgs(cmd, inputs.error) /\ out' = out
        ELSE IF missing # <<>>
        THEN result' = ErrMissingArgs(cmd, missing) /\ out' = out
        ELSE /\ out' = expand_named_placeholders(content, inputs.map)
             /\ result' = OkSome(out')
  /\ epc' = "named"
  /\ UNCHANGED <<content, args, expander, i, line, catalog, discoveryVars>>

\* expand_custom_prompt_text with no required name: the positional
\* arguments are split and the content expanded.
NumericDialect ==
  /\ epc = "matched"
  /\ expander = "prompt"
  /\ prompt_argument_names(content) = <<>>
  /\ args' = prompt_parse_positional_args(PromptLookup[1].rest)
  /\ out' = expand_numeric_placeholders(content, args')
  /\ result' = OkSome(out')
  /\ epc' = "numeric"
  /\ UNCHANGED <<content, expander, i, line, catalog, discoveryVars>>

\* The invocation texts, templates and catalogs calls are made with.
TokenValues ==
  { <<"U", "=", "a">>, <<"B", "=", "$", "U">>, <<"=", "a">>, <<"x">>,
    <<"$", "1">> }
TokenLists == UNION { [1..n -> TokenValues] : n \in 0..MaxTokens }

RECURSIVE Typed(_, _)
Typed(head, tokens) ==
  IF tokens = <<>> THEN head
  ELSE Typed(head \o <<" ">> \o Head(tokens), Tail(tokens))

CommandHead == <<"/", "n">>
PromptHead == <<"/">> \o PromptsPrefix \o <<"n">>

\* Texts that match nothing, or match after trimming.
OtherLines ==
  { <<>>, <<"/">>, <<"n">>, <<"/", " ", "n">>, <<"/", "m">>,
    <<"/", "x", "n">>, <<" ", "\n", "/", "n", " ", " ", "x", " ">>,
    <<"/", "n", "\n", "U", "=", "a">>,
    <<"/">> \o PromptsPrefix, <<"/">> \o PromptsPrefix \o <<"m">>,
    PromptsPrefix \o <<"n">>,
    <<" ">> \o PromptHead \o <<" ", " ", "U", "=", "a", " ">> }

NamedPieces ==
  { <<"$", "U">>, <<"$", "B">>, <<"$">>, <<"$", "1">>, <<"x">>,
    <<"$">> \o ArgumentsWord }
CallTemplates ==
  { Flatten(ps) : ps \in UNION { [1..n -> NamedPieces] : n \in 0..MaxCallPieces } }

Catalogs(Entry(_, _)) ==
  { <<>>,
    <<Entry(<<"m">>, <<"x">>), Entry(<<"n">>, <<"$", "1">>)>>,
    <<Entry(<<"n">>, <<"$", "1">>), Entry(<<"n">>, <<"x">>)>> }
  \cup { <<Entry(<<"n">>, t)>> : t \in CallTemplates }

InitCall ==
  /\ DiscoveryIdle
  /\ content = <<>>
  /\ args = <<>>
  /\ i = 0
  /\ out = <<>>
  /\ epc = "call"
  /\ result = NoneValue
  /\ \/ /\ expander = "command"
        /\ line \in { Typed(CommandHead, ts) : ts \in TokenLists } \cup OtherLines
        /\ catalog \in Catalogs(command)
     \/ /\ expander = "prompt"
        /\ line \in { Typed(PromptHead, ts) : ts \in TokenLists } \cup OtherLines
        /\ catalog \in Catalogs(prompt)

NextCall ==
  \/ MatchCommand
  \/ ExpandCommand
  \/ MatchPrompt
  \/ NamedDialect
  \/ NumericDialect

SpecCall == InitCall /\ [][NextCall]_vars

\* ------------------------------------------------------------------------
\* parse_frontmatter applied to file contents
\* ------------------------------------------------------------------------
\* The lines file contents are concatenated from.
HeaderLines ==
  { <<"-", "-", "-", "\n">>, <<"-", "-", "-">>,
    <<" ", "-", "-", "-", " ", "\r", "\n">>, <<"K", "\n">>, <<"U", "\n">>,
    <<"x", "\n">>, <<"\n">> }
FileContents ==
  { Flatten(ls) : ls \in UNION { [1..n -> HeaderLines] : n \in 0..MaxLines } }

InitHeader ==
  /\ DiscoveryIdle
  /\ line = <<>>
  /\ catalog = <<>>
  /\ result = NoneValue
  /\ content \in FileContents
  /\ args = <<>>
  /\ expander = "header"
  /\ i = 0
  /\ out = <<>>
  /\ epc = "call"

\* let parsed = parse_frontmatter(&content)
ParseHeader ==
  /\ epc = "call"
  /\ expander = "header"
  /\ result' = parse_frontmatter(content)
  /\ epc' = "parsed"
  /\ UNCHANGED <<content, args, expander, i, out, line, catalog, discoveryVars>>

NextHeader == ParseHeader

SpecHeader == InitHeader /\ [][NextHeader]_vars

UserPaths == { p \in AllPaths : Components(p)[1] = Components(UserRoot)[1] }

Init ==
  /\ fs \in Snapshots
  /\ \/ user_root = UserRoot
     \/ /\ user_root = NoneValue
        /\ \A p \in UserPaths : fs[p] = Default(p)
  /\ run = 1
  /\ first = NoneValue
  /\ pc = "start"
  /\ scope = "User"
  /\ queue = <<>>
  /\ cur = NoneValue
  /\ remaining = {}
  /\ commands = <<>>
  /\ errors = <<>>
  /\ seen = {}
  /\ user_commands = <<>>
  /\ user_errors = <<>>
  /\ project_commands = <<>>
  /\ project_errors = <<>>
  /\ outcome = NoneValue
  /\ visited = NoVisits
  /\ enumerated = <<>>
  /\ io_failed = {}
  /\ ExpansionIdle

Next ==
  \/ EnterRoot
  \/ ReadDir
  \/ NextEntry
  \/ ListingEnds
  \/ ReturnWalk
  \/ Merge
  \/ CallAgain

Spec == Init /\ [][Next]_vars


\* ------------------------------------------------------------------------
\* Properties
\* ------------------------------------------------------------------------
Range(seq) == { seq[k] : k \in DOMAIN seq }

Finished == pc = "done"

\* C1: the merged catalog is exactly every Project entry plus every User
\* entry whose name no Project entry has, one entry for each; for a name in
\* both scopes the catalog holds the Project entry, whole, and nothing of
\* the User entry.
C1_MergePolicy ==
  Finished =>
    LET project == Range(project_commands)
        user == Range(user_commands)
        kept == project \cup { u \in user : \A c \in project : c.name # u.name }
    IN /\ Range(outcome.commands) = kept
       /\ Len(outcome.commands) = Cardinality(kept)
       /\ \A c \in project :
            { e \in Range(outcome.commands) : e.name = c.name } = {c}

\* A name found in both scopes, with different content and metadata, and
\* the discovery call has returned.
C1_Witness ==
  /\ Finished
  /\ \E c \in Range(project_commands) : \E u \in Range(user_commands) :
       /\ c.name = u.name
       /\ c.content # u.content
       /\ c.model # u.model
       /\ c \in Range(outcome.commands)

\* C2: the catalog a discovery call returns is strictly ascending by name
\* and its error list is non-decreasing by path.
C2_Ordered ==
  Finished =>
    /\ \A k \in 1..(Len(outcome.commands) - 1) :
         StrCmp(outcome.commands[k].name, outcome.commands[k + 1].name) < 0
    /\ \A k \in 1..(Len(outcome.errors) - 1) :
         PathCmp(Components(outcome.errors[k].path),
                 Components(outcome.errors[k + 1].path)) <= 0

\* A returned catalog in which a User entry precedes a Project entry (the
\* merge lists Project entries first) beside a non-empty error list.
C2_Witness ==
  /\ Finished
  /\ \E k \in 1..(Len(outcome.commands) - 1) :
       /\ outcome.commands[k].scope = "User"
       /\ outcome.commands[k + 1].scope = "Project"
  /\ outcome.errors # <<>>

\* What each walk of the call returned.
CommandsOf(s) == IF s = "User" THEN user_commands ELSE project_commands
ErrorsOf(s) == IF s = "User" THEN user_errors ELSE project_errors

ErrorsAt(errs, p) == { k \in DOMAIN errs : errs[k].path = p }

\* A regular file, or a link to one, with the extension md in any case.
MarkdownFile(p) ==
  LET node == NodeOf(fs[p])
      name == Components(p)[Len(Components(p))]
      n == Len(name)
  IN /\ node.type_ok
     /\ node.kind = "file" \/ (node.kind = "symlink" /\ node.target = "file")
     /\ n >= 4
     /\ name[n - 2] = "."
     /\ name[n - 1] \in {"m", "M"}
     /\ name[n] \in {"d", "D"}

\* The name a markdown file is registered under.
StemOf(p) ==
  LET name == Components(p)[Len(Components(p))]
  IN SubSeq(name, 1, Len(name) - 3)

\* No directory listing of the snapshot fails part-way.
NoListingBreaks == \A p \in AllPaths : NodeOf(fs[p]).listing # "breaks"

\* C3: two discovery calls over the same unchanged snapshot return the same
\* catalog and the same error list, whatever order the directory entries
\* are enumerated in.  Stated for the snapshots whose listings do not fail
\* part-way (C6 is about those that do).
C3_SameOutcome == (run = 2 /\ Finished /\ NoListingBreaks) => outcome = first

\* C4: every candidate file with a reserved name yields exactly one
\* "conflicts with a built-in command name" error for its path and no
\* entry; reserved names never enter the seen-set and never cause a
\* duplicate-name error; no entry of the merged catalog has a reserved name.
C4_ReservedNames ==
  /\ seen \cap RESERVED_COMMAND_NAMES = {}
  /\ Finished =>
       /\ \A s \in Scopes : \A p \in Range(visited[s]) :
            (MarkdownFile(p) /\ StemOf(p) \in RESERVED_COMMAND_NAMES) =>
              /\ Cardinality(ErrorsAt(ErrorsOf(s), p)) = 1
              /\ \A k \in ErrorsAt(ErrorsOf(s), p) :
                   /\ ErrorsOf(s)[k].message.text
                        = "conflicts with a built-in command name"
                   /\ ErrorsOf(s)[k].message.name = StemOf(p)
              /\ \A c \in Range(CommandsOf(s)) : c.path # p
       /\ \A s \in Scopes : \A e \in Range(ErrorsOf(s)) :
            e.message.text = "duplicate command name"
              => e.message.name \notin RESERVED_COMMAND_NAMES
       /\ \A c \in Range(outcome.commands) : c.name \notin RESERVED_COMMAND_NAMES

\* Two files with the same reserved name were visited in one scope and the
\* call has returned.
C4_Witness ==
  /\ Finished
  /\ \E s \in Scopes : \E p, q \in Range(visited[s]) :
       /\ p # q
       /\ MarkdownFile(p) /\ MarkdownFile(q)
       /\ StemOf(p) = StemOf(q)
       /\ StemOf(p) \in RESERVED_COMMAND_NAMES

\* The walk of the entries of log, in that order, from state w.
RECURSIVE ReplayFrom(_, _, _)
ReplayFrom(w, log, s) ==
  IF log = <<>> THEN w
  ELSE ReplayFrom(VisitEntry(w, Head(log), s, RootOf(s)), Tail(log), s)

ReadOrParseFailures ==
  {"failed to read command file", "unterminated frontmatter block",
   "frontmatter must be a mapping", "invalid frontmatter",
   "unsupported frontmatter field"}

\* C5: a file whose read or header parse fails yields one error for its own
\* path and no entry, and every other file of the walk yields what it would
\* yield if the failing file were absent.
C5_FailureIsolation ==
  Finished =>
    \A s \in Scopes : \A f \in Range(visited[s]) :
      (\E e \in Range(ErrorsOf(s)) :
         e.path = f /\ e.message.text \in ReadOrParseFailures) =>
        LET NotF(p) == p # f
            NotAtF(e) == e.path # f /\ e.path \in Range(visited[s])
            without == ReplayFrom(EmptyWalk, SelectSeq(visited[s], NotF), s)
        IN /\ Cardinality(ErrorsAt(ErrorsOf(s), f)) = 1
           /\ \A c \in Range(CommandsOf(s)) : c.path # f
           /\ CommandsOf(s) = SortByName(without.commands)
           /\ SelectSeq(ErrorsOf(s), NotAtF) = without.errors

\* C6: every I/O failure met during the walks has an error record for its
\* path, and every entry of every directory whose listing was opened has
\* been visited.
C6_FullErrorList ==
  Finished =>
    /\ \A f \in io_failed : \E e \in Range(outcome.errors) : e.path = f.path
    /\ \A d \in Range(enumerated) :
         Children(d) \subseteq Range(visited["User"]) \cup Range(visited["Project"])

NoDirectoryTwice ==
  \A a, b \in DOMAIN enumerated : a # b => enumerated[a] # enumerated[b]

\* The steps a walk still owes for a pending directory: opening and
\* closing its listing, one step for each entry, and the same for every
\* real directory among the entries.
RECURSIVE DirWork(_)
DirWork(dir) ==
  LET RECURSIVE Sum(_)
      Sum(S) == IF S = {} THEN 0
                ELSE LET c == CHOOSE x \in S : TRUE
                     IN 1 + (IF fs[c] \in {"Directory", "UnreadableDir",
                                           "BreakingDir(0)", "BreakingDir(1)"}
                             THEN DirWork(c) ELSE 0) + Sum(S \ {c})
  IN 2 + Sum(Children(dir))

RECURSIVE QueueWork(_)
QueueWork(q) == IF q = <<>> THEN 0 ELSE DirWork(Head(q)) + QueueWork(Tail(q))

RECURSIVE EntriesWork(_)
EntriesWork(S) ==
  IF S = {} THEN 0
  ELSE LET c == CHOOSE x \in S : TRUE
       IN 1 + (IF fs[c] \in {"Directory", "UnreadableDir",
                             "BreakingDir(0)", "BreakingDir(1)"}
               THEN DirWork(c) ELSE 0) + EntriesWork(S \ {c})

\* More than any walk of the snapshot owes.
WorkLimit == 3 * Cardinality(AllPaths) + 1

\* The steps the two calls still owe: a variant of the discovery loop.
Rank ==
  LET phase == CASE pc = "start" /\ scope = "User" -> 5
                 [] pc = "walk" /\ scope = "User" -> 4
                 [] pc = "start" /\ scope = "Project" -> 3
                 [] pc = "walk" /\ scope = "Project" -> 2
                 [] pc = "merge" -> 1
                 [] OTHER -> 0
      walk == QueueWork(queue)
                + (IF cur = NoneValue THEN 0 ELSE 1 + EntriesWork(remaining))
  IN ((2 - run) * 6 + phase) * WorkLimit + walk

\* A step of the call is possible: one of the guards holds (in a listing,
\* the next entry, or the end of the listing).
CanStep ==
  \/ AtEntry
  \/ AtPop
  \/ AtListing /\ (BreaksNow \/ remaining = {} \/ remaining # {})
  \/ AtReturn
  \/ AtMerge
  \/ AtSecondCall

\* C7: every discovery call returns, whatever the snapshot holds: until
\* the second call has returned a step is possible, every step lowers the
\* number of steps still owed (which is never negative), the work stack is
\* empty at the return, and no directory is enumerated twice in one call.
C7_Terminates ==
  /\ [](NoDirectoryTwice /\ Rank >= 0)
  /\ []((pc # "idle" /\ ~(run = 2 /\ Finished)) => CanStep)
  /\ [](Finished => (queue = <<>> /\ cur = NoneValue))
  /\ [][Rank' < Rank]_vars

\* A call has returned over a snapshot with a link to an ancestor
\* directory, a broken link and an I/O failure or an unparsable file.
C7_Witness ==
  /\ Finished
  /\ \E p \in AllPaths : fs[p] = "SymlinkToDir"
  /\ \E p \in AllPaths : fs[p] = "BrokenSymlink"
  /\ \E p \in AllPaths :
       fs[p] \in {"UnreadableDir", "UnreadableFile", "File(Unterminated)"}
  /\ outcome.errors # <<>>

\* ------------------------------------------------------------------------
\* Numeric dialect: what one pass of the scan owes, read off the template
\* ------------------------------------------------------------------------
\* The "$" the scan meets next: the first one at or after offset i
\* (0-based), when there is one.
MeetsDollarAt(j) ==
  /\ epc = "scan"
  /\ j \in i..(Len(content) - 1)
  /\ content[j + 1] = "$"
  /\ \A k \in i..(j - 1) : content[k + 1] # "$"

\* The character that follows the "$" at offset j, "" at the end.
Following(j) == IF j + 2 <= Len(content) THEN content[j + 2] ELSE ""

\* The text copied before the "$" at offset j.
CopiedUpTo(j) == out \o SubSeq(content, i + 1, j)

\* The digits of 1..9 that templates are built from, and their values.
TemplateDigits == {"1", "2"}

DigitValue(c) == IF c = "1" THEN 1 ELSE 2

\* The word ARGUMENTS stands right after the "$" at offset j.
WordFollows(j) ==
  /\ j + 1 + Len(ArgumentsWord) <= Len(content)
  /\ \A k \in 1..Len(ArgumentsWord) : content[j + 1 + k] = ArgumentsWord[k]

RECURSIVE SpaceJoined(_)
SpaceJoined(list) ==
  IF Len(list) = 0 THEN <<>>
  ELSE IF Len(list) = 1 THEN list[1]
  ELSE SpaceJoined(SubSeq(list, 1, Len(list) - 1)) \o <<" ">> \o list[Len(list)]

\* C8: in both expanders, when the scan meets "$" followed by "$" it
\* emits the two characters "$$" and consumes both, for every template and
\* argument list; so a template "$$1" is returned as "$$1".
C8_DoubleDollarKept ==
  /\ [][\A j \in 0..Len(content) :
          (MeetsDollarAt(j) /\ Following(j) = "$")
            => /\ i' = j + 2
               /\ out' = CopiedUpTo(j) \o <<"$", "$">>]_vars
  /\ []((epc = "done" /\ content = <<"$", "$", "1">>) => out = content)

\* The template "$$1" has been expanded with an argument at hand.
C8_Witness ==
  /\ epc = "done"
  /\ content = <<"$", "$", "1">>
  /\ args = << <<"a">> >>
  /\ out = <<"$", "$", "1">>

\* C9: an unescaped "$" followed by a digit d in 1..9 consumes the two
\* characters and is replaced by argument d when at least d arguments were
\* given, by nothing otherwise; "$0" is copied as "$" with the scan one
\* character on; of "$10" only "$1" is the placeholder.
C9_Positional ==
  /\ [][\A j \in 0..Len(content) :
          /\ (MeetsDollarAt(j) /\ Following(j) \in TemplateDigits)
               => /\ i' = j + 2
                  /\ out' = CopiedUpTo(j) \o
                       (IF DigitValue(Following(j)) <= Len(args)
                        THEN args[DigitValue(Following(j))] ELSE <<>>)
          /\ (MeetsDollarAt(j) /\ Following(j) = "0")
               => /\ i' = j + 1
                  /\ out' = CopiedUpTo(j) \o <<"$">>]_vars
  /\ []((epc = "done" /\ content = <<"$", "1", "0">>)
          => out = (IF args = <<>> THEN <<>> ELSE args[1]) \o <<"0">>)
  /\ []((epc = "done" /\ content = <<"$", "0">>) => out = content)

\* "$2" has been expanded with one argument (dropped), and "$1" with an
\* argument (substituted).
C9_Witness ==
  /\ epc = "done"
  /\ \/ content = <<"$", "2">> /\ Len(args) = 1 /\ out = <<>>
     \/ content = <<"x", "$", "1", "0">> /\ args = << <<"a">> >>
          /\ out = <<"x", "a", "0">>

\* C10: an unescaped "$" followed by the word ARGUMENTS is replaced by the
\* arguments joined with single spaces (nothing when there are none) and
\* the scan advances past the ten characters, at the very end of the
\* template and before further word characters alike; any other "$" is
\* copied and the scan advances one character.
C10_Arguments ==
  [][\A j \in 0..Len(content) :
       (MeetsDollarAt(j) /\ Following(j) \notin ({"$"} \cup TemplateDigits))
         => IF WordFollows(j)
            THEN /\ i' = j + 1 + Len(ArgumentsWord)
                 /\ out' = CopiedUpTo(j) \o SpaceJoined(args)
            ELSE /\ i' = j + 1
                 /\ out' = CopiedUpTo(j) \o <<"$">>]_vars

\* "$ARGUMENTS" at the very end of a template has been replaced by two
\* joined arguments.
C10_Witness ==
  /\ epc = "done"
  /\ content = <<"$">> \o ArgumentsWord
  /\ Len(args) = 2
  /\ out = args[1] \o <<" ">> \o args[2]

\* ------------------------------------------------------------------------
\* Prompt calls: what the template and the typed tokens require
\* ------------------------------------------------------------------------
UpperLetters == {"A", "B", "E", "G", "M", "N", "R", "S", "T", "U"}
NameLetters == UpperLetters \cup {"0", "1", "2", "_"}

\* An unescaped named token starts at position k of template t.
NamedTokenAt(t, k) ==
  /\ k < Len(t)
  /\ t[k] = "$"
  /\ t[k + 1] \in UpperLetters
  /\ k = 1 \/ t[k - 1] # "$"

\* The name of the token that starts at position k.
NameAt(t, k) ==
  LET ends == {e \in (k + 1)..Len(t) :
                 /\ \A m \in (k + 1)..e : t[m] \in NameLetters
                 /\ e = Len(t) \/ t[e + 1] \notin NameLetters}
  IN SubSeq(t, k + 1, CHOOSE e \in ends : TRUE)

\* The distinct names of the unescaped named tokens of t other than
\* ARGUMENTS, in the order of their first occurrence.
RECURSIVE RequiredFrom(_, _, _)
RequiredFrom(t, k, acc) ==
  IF k > Len(t) THEN acc
  ELSE IF /\ NamedTokenAt(t, k)
          /\ NameAt(t, k) # ArgumentsWord
          /\ NameAt(t, k) \notin Range(acc)
  THEN RequiredFrom(t, k + 1, Append(acc, NameAt(t, k)))
  ELSE RequiredFrom(t, k + 1, acc)

RequiredNames(t) == RequiredFrom(t, 1, <<>>)

\* A prompt was matched and the call has returned.
PromptReturned == expander = "prompt" /\ epc \in {"named", "numeric"}

\* The tokens typed after the name.
TypedTokens == SplitWhitespace(PromptLookup[1].rest)

HasAssignment(token) == \E k \in 1..Len(token) : token[k] = "="
KeyOf(token) ==
  SubSeq(token, 1,
         (CHOOSE k \in 1..Len(token) :
            token[k] = "=" /\ \A m \in 1..(k - 1) : token[m] # "=") - 1)
IsKeyValue(token) == HasAssignment(token) /\ KeyOf(token) # <<>>

\* The required names no typed key=value supplies, in first-occurrence order.
Unsupplied ==
  SelectSeq(RequiredNames(content),
            LAMBDA name : ~\E k \in DOMAIN TypedTokens :
                             /\ IsKeyValue(TypedTokens[k])
                             /\ KeyOf(TypedTokens[k]) = name)

\* C11 as stated: for every invocation text, a template with a required
\* name that no key=value supplies makes the call fail with MissingArgs
\* listing exactly the unsupplied names in first-occurrence order.
C11_MissingArgsAlways ==
  (PromptReturned /\ Unsupplied # <<>>) =>
    /\ result.tag = "Err(MissingArgs)"
    /\ result.missing = Unsupplied

\* C11 amended: when every typed token has the form key=value with a
\* non-empty key, a template with a required name that no token supplies
\* makes the call fail with MissingArgs listing exactly the unsupplied
\* required names in first-occurrence order, and no text is returned.
C11_MissingArgs ==
  (/\ PromptReturned
   /\ Unsupplied # <<>>
   /\ \A k \in DOMAIN TypedTokens : IsKeyValue(TypedTokens[k])) =>
    /\ result.tag = "Err(MissingArgs)"
    /\ result.missing = Unsupplied
    /\ out = <<>>

\* A template with two required names was called with one of them
\* supplied, and with none.
C11_Witness ==
  /\ PromptReturned
  /\ RequiredNames(content) = << <<"B">>, <<"U">> >>
  /\ TypedTokens = << <<"U", "=", "a">> >>
  /\ result.tag = "Err(MissingArgs)"
  /\ result.missing = << <<"B">> >>

\* The position of the first typed token that is not key=value with a
\* non-empty key, 0 when every token is.
FirstBadToken ==
  LET bad == {k \in DOMAIN TypedTokens : ~IsKeyValue(TypedTokens[k])}
  IN IF bad = {} THEN 0 ELSE CHOOSE k \in bad : \A m \in bad : k <= m

\* C12: when the template has a required name, the first typed token
\* without "=" makes the call fail with Args{MissingAssignment{token}} and
\* the first with an empty key with Args{MissingKey{token}}, whichever
\* comes first, carrying `/prompts:<name>` and the token; a failing call
\* returns no text, and text is returned only when every token is
\* key=value and every required name is supplied.
C12_TokenValidation ==
  (PromptReturned /\ RequiredNames(content) # <<>>) =>
    /\ FirstBadToken # 0 =>
         /\ result.tag = "Err(Args)"
         /\ result.command
              = <<"/">> \o PromptsPrefix \o PromptLookup[1].entry.name
         /\ result.error.token = TypedTokens[FirstBadToken]
         /\ result.error.kind
              = (IF HasAssignment(TypedTokens[FirstBadToken])
                 THEN "MissingKey" ELSE "MissingAssignment")
    /\ result.tag \in {"Err(Args)", "Err(MissingArgs)"} => out = <<>>
    /\ result.tag \in {"Err(Args)", "Err(MissingArgs)", "Ok(Some)"}
    /\ result.tag = "Ok(Some)" => (FirstBadToken = 0 /\ Unsupplied = <<>>)

\* A call whose second token has an empty key, after a valid first token
\* that supplies the only required name, has failed with MissingKey.
C12_Witness ==
  /\ PromptReturned
  /\ RequiredNames(content) = << <<"U">> >>
  /\ TypedTokens = << <<"U", "=", "a">>, <<"=", "a">> >>
  /\ result.tag = "Err(Args)"
  /\ result.error = [kind |-> "MissingKey", token |-> <<"=", "a">>]

\* C13: the dialect of a matched prompt depends on its template only: with
\* no unescaped named token other than $ARGUMENTS the numeric dialect
\* expands it over the typed tokens taken as positional arguments and the
\* call returns Ok, whatever the tokens are; with at least one, the named
\* dialect handles the call, whatever the tokens are.
C13_DialectByTemplate ==
  /\ [](PromptReturned =>
          IF RequiredNames(content) = <<>>
          THEN /\ epc = "numeric"
               /\ args = TypedTokens
               /\ result = OkSome(expand_numeric_placeholders(content, TypedTokens))
          ELSE /\ epc = "named"
               /\ result.tag \in {"Err(Args)", "Err(MissingArgs)"}
                    \/ result = OkSome(out))
  /\ [][(expander = "prompt" /\ epc = "matched") =>
          epc' = (IF RequiredNames(content) = <<>> THEN "numeric" ELSE "named")]_vars

\* A template without named tokens was called with a key=value token and a
\* plain one: both are positional arguments.
C13_Witness ==
  /\ PromptReturned
  /\ content = <<"$", "1", "$">> \o ArgumentsWord
  /\ TypedTokens = << <<"U", "=", "a">>, <<"x">> >>
  /\ result = OkSome(<<"U", "=", "a", "U", "=", "a", " ", "x">>)

\* The name typed in the invocation text: after the leading whitespace, the
\* run of non-whitespace characters that follows a "/"; empty when the text
\* does not start with "/" or nothing follows it.
SlashName ==
  LET starts == {k \in 1..Len(line) :
                   /\ ~IsWhitespace(line[k])
                   /\ \A m \in 1..(k - 1) : IsWhitespace(line[m])}
      s == CHOOSE k \in starts : TRUE
      ends == {e \in s..Len(line) :
                 /\ \A m \in (s + 1)..e : ~IsWhitespace(line[m])
                 /\ e = Len(line) \/ IsWhitespace(line[e + 1])}
  IN IF starts = {} \/ line[s] # "/" THEN <<>>
     ELSE SubSeq(line, s + 1, CHOOSE e \in ends : TRUE)

\* The positions of the catalog entries with a name.
EntriesNamed(name) == {k \in DOMAIN catalog : catalog[k].name = name}
FirstNamed(name) ==
  catalog[CHOOSE k \in EntriesNamed(name) : \A m \in EntriesNamed(name) : k <= m]

\* The typed name without the prefix `prompts:`, empty when it lacks it.
HasPromptsPrefix ==
  /\ Len(SlashName) >= Len(PromptsPrefix)
  /\ \A k \in 1..Len(PromptsPrefix) : SlashName[k] = PromptsPrefix[k]
PromptName == SubSeq(SlashName, Len(PromptsPrefix) + 1, Len(SlashName))

\* C14: expand_custom_command returns an expansion exactly when the typed
\* name is not empty and is the name of a catalog entry, and then of the
\* first such entry; otherwise it returns None.  expand_custom_prompt_text
\* returns Ok(None) exactly when the typed name is empty, lacks the prefix
\* `prompts:`, or no prompt has the name that follows the prefix.
C14_Matching ==
  /\ (expander = "command" /\ epc # "call") =>
       IF SlashName # <<>> /\ EntriesNamed(SlashName) # {}
       THEN /\ epc \in {"matched", "numeric"}
            /\ content = FirstNamed(SlashName).content
            /\ epc = "numeric" =>
                 /\ result.tag = "Some"
                 /\ result.command = FirstNamed(SlashName)
       ELSE epc = "none" /\ result = NoExpansion
  /\ (expander = "prompt" /\ epc # "call") =>
       IF SlashName # <<>> /\ HasPromptsPrefix /\ EntriesNamed(PromptName) # {}
       THEN /\ epc \in {"matched", "named", "numeric"}
            /\ content = FirstNamed(PromptName).content
            /\ epc # "matched" => result.tag # "Ok(None)"
       ELSE epc = "none" /\ result = OkNone

\* A command typed after leading whitespace was found in a catalog that
\* holds two entries with its name, and expanded.
C14_Witness ==
  /\ expander = "command"
  /\ epc = "numeric"
  /\ IsWhitespace(line[1])
  /\ Cardinality(EntriesNamed(SlashName)) = 2
  /\ result.command = catalog[1]
  /\ result.text = <<"x">>

\* ------------------------------------------------------------------------
\* Header delimiting, read off the file content
\* ------------------------------------------------------------------------
\* A line that holds `---` and besides it only whitespace.
IsDelimiterLine(seg) ==
  /\ SelectSeq(seg, LAMBDA c : ~IsWhitespace(c)) = Delimiter
  /\ \E k \in 1..(Len(seg) - 2) : SubSeq(seg, k, k + 2) = Delimiter

\* The lines of the content, each with its line break.
FileLines == SplitInclusive(content)

\* The position of the first delimiter line after the first line, 0 when
\* there is none.
ClosingLine ==
  LET at == {k \in 2..Len(FileLines) : IsDelimiterLine(FileLines[k])}
  IN IF at = {} THEN 0 ELSE CHOOSE k \in at : \A m \in at : k <= m

HeaderBlock == Flatten(SubSeq(FileLines, 2, ClosingLine - 1))
AfterHeader == Flatten(SubSeq(FileLines, ClosingLine + 1, Len(FileLines)))

NoHeader == FileLines = <<>> \/ ~IsDelimiterLine(FileLines[1])

\* C15 as stated: without an opening `---` line the result is Ok with the
\* whole content as body and no field; with an opening line and no closing
\* one it is the unterminated-header error; otherwise it is Ok and the body
\* is the text after the closing line, so that opening line, header block,
\* closing line and body make up the content.
C15_DelimitingAlways ==
  epc = "parsed" =>
    IF NoHeader
    THEN result.ok /\ result.body = content /\ result.fields = NoFields
    ELSE IF ClosingLine = 0
    THEN ~result.ok /\ result.message = "unterminated frontmatter block"
    ELSE /\ result.ok
         /\ result.body = AfterHeader
         /\ FileLines[1] \o HeaderBlock \o FileLines[ClosingLine] \o result.body
              = content

\* C15 amended: the same, and in the last case the result is Ok with that
\* body when the header block is blank or decodes to recognized fields, and
\* the decoding error, not the unterminated-header error, when it does not.
C15_Delimiting ==
  epc = "parsed" =>
    IF NoHeader
    THEN result.ok /\ result.body = content /\ result.fields = NoFields
    ELSE IF ClosingLine = 0
    THEN ~result.ok /\ result.message = "unterminated frontmatter block"
    ELSE IF Trim(HeaderBlock) = <<>> \/ parse_frontmatter_fields(HeaderBlock).ok
    THEN /\ result.ok
         /\ result.body = AfterHeader
         /\ FileLines[1] \o HeaderBlock \o FileLines[ClosingLine] \o result.body
              = content
    ELSE /\ ~result.ok
         /\ result.message = parse_frontmatter_fields(HeaderBlock).message
         /\ result.message # "unterminated frontmatter block"

\* A content with a header of one field, closed by a delimiter line with
\* blanks and a carriage return, and a body after it has been parsed.
C15_Witness ==
  /\ epc = "parsed"
  /\ content = <<"-", "-", "-", "\n", "K", "\n",
                 " ", "-", "-", "-", " ", "\r", "\n", "x", "\n">>
  /\ result.ok
  /\ result.body = <<"x", "\n">>
  /\ result.fields.model = Some(<<"m">>)

\* ------------------------------------------------------------------------
\* Argument values are inserted verbatim
\* ------------------------------------------------------------------------
\* Letters that occur in no template: one stands for each argument.
PositionMarkers == <<"y", "d", "f", "i">>
KeyMarkers == (<<"U">> :> "y") @@ (<<"B">> :> "d")

\* s with every marker replaced by the value it stands for.
Unmarked(s, values) ==
  Flatten([k \in 1..Len(s) |->
             IF s[k] \in DOMAIN values THEN values[s[k]] ELSE <<s[k]>>])

\* The arguments of a numeric expansion replaced by their markers, and the
\* values the markers stand for.
MarkedArgs == [k \in 1..Len(args) |-> <<PositionMarkers[k]>>]
ArgOfMarker ==
  [c \in {PositionMarkers[k] : k \in 1..Len(args)} |->
     args[CHOOSE k \in 1..Len(args) : PositionMarkers[k] = c]]

\* The same for the inputs of a named expansion.
TypedInputs == parse_prompt_inputs(PromptLookup[1].rest).map
MarkedInputs == [key \in DOMAIN TypedInputs |-> <<KeyMarkers[key]>>]
InputOfMarker ==
  [c \in {KeyMarkers[key] : key \in DOMAIN TypedInputs} |->
     TypedInputs[CHOOSE key \in DOMAIN TypedInputs : KeyMarkers[key] = c]]

\* C16: in both dialects the text returned is the template expanded with
\* opaque arguments, with each argument value then put in its place as it
\* is: a value that holds `$1`, `$ARGUMENTS`, `$$` or `$NAME` is inserted
\* verbatim and never substituted again.
C16_NoRecursiveExpansion ==
  /\ epc = "numeric" =>
       /\ result.text = out
       /\ out = Unmarked(IF expander = "command"
                         THEN expand_placeholders(content, MarkedArgs)
                         ELSE expand_numeric_placeholders(content, MarkedArgs),
                         ArgOfMarker)
  /\ (epc = "named" /\ result.tag = "Ok(Some)") =>
       result.text
         = Unmarked(expand_named_placeholders(content, MarkedInputs),
                    InputOfMarker)

\* A named template was expanded with a value that is itself the named
\* token of a supplied key: the value stands in the text as typed.
C16_Witness ==
  /\ epc = "named"
  /\ content = <<"$", "B", "$", "U">>
  /\ TypedTokens = << <<"U", "=", "a">>, <<"B", "=", "$", "U">> >>
  /\ result = OkSome(<<"$", "U", "a">>)

\* ------------------------------------------------------------------------
\* Duplicate names and candidate selection
\* ------------------------------------------------------------------------
\* The positions, in the order visited, of the candidate files of a scope
\* that carry a name.
CandidatesNamed(s, name) ==
  {k \in DOMAIN visited[s] :
     MarkdownFile(visited[s][k]) /\ StemOf(visited[s][k]) = name}

DuplicateErrors(s) ==
  {k \in DOMAIN ErrorsOf(s) :
     ErrorsOf(s)[k].message.text = "duplicate command name"}

\* C17: in one scope's walk, of the candidate files that carry a
\* non-reserved name the first visited is the one read and parsed (it
\* yields the entry or its own read or parse error, never a duplicate
\* error) and each later one yields one "duplicate command name" error
\* naming the scope and no entry; a walk returns at most one entry for a
\* name; a name carried once in each scope yields no duplicate error.
C17_DuplicateNames ==
  Finished =>
    \A s \in Scopes :
      /\ \A k \in DOMAIN visited[s] :
           LET p == visited[s][k]
               name == StemOf(p)
               at == ErrorsAt(ErrorsOf(s), p)
           IN (MarkdownFile(p) /\ IsUtf8(name)
                 /\ name \notin RESERVED_COMMAND_NAMES) =>
                IF \E j \in CandidatesNamed(s, name) : j < k
                THEN /\ Cardinality(at) = 1
                     /\ \A e \in at :
                          ErrorsOf(s)[e].message
                            = Message("duplicate command name", name, s)
                     /\ \A c \in Range(CommandsOf(s)) : c.path # p
                ELSE /\ at \cap DuplicateErrors(s) = {}
                     /\ \/ /\ at = {}
                           /\ \E c \in Range(CommandsOf(s)) :
                                c.path = p /\ c.name = name
                        \/ /\ Cardinality(at) = 1
                           /\ \A e \in at : ErrorsOf(s)[e].message.text
                                              \in ReadOrParseFailures
                           /\ \A c \in Range(CommandsOf(s)) : c.path # p
      /\ \A a, b \in DOMAIN CommandsOf(s) :
           CommandsOf(s)[a].name = CommandsOf(s)[b].name => a = b

\* One name is carried by one file of the User scope and by two of the
\* Project scope: the walks have returned with one duplicate error, in the
\* Project scope.
C17_Witness ==
  /\ Finished
  /\ \E p \in Range(visited["Project"]) :
       /\ Cardinality(CandidatesNamed("User", StemOf(p))) = 1
       /\ Cardinality(CandidatesNamed("Project", StemOf(p))) = 2
       /\ StemOf(p) \notin RESERVED_COMMAND_NAMES
  /\ DuplicateErrors("User") = {}
  /\ Cardinality(DuplicateErrors("Project")) = 1

\* ------------------------------------------------------------------------
\* C18: candidate selection
\* ------------------------------------------------------------------------
\* The file name ends in ".md" in any case.
MdSuffix(p) ==
  LET name == Components(p)[Len(Components(p))]
      n == Len(name)
  IN /\ n >= 4
     /\ name[n - 2] = "."
     /\ name[n - 1] \in {"m", "M"}
     /\ name[n] \in {"d", "D"}

\* A regular file, or a link whose target is one.
RegularFile(p) ==
  \/ NodeAt(p).kind = "file"
  \/ NodeAt(p).kind = "symlink" /\ NodeAt(p).target = "file"

LinkTo(p, target) == NodeAt(p).kind = "symlink" /\ NodeAt(p).target = target

CommandsAt(s, p) == { k \in DOMAIN CommandsOf(s) : CommandsOf(s)[k].path = p }

\* The entry left no trace: no error and no command.
Silent(s, p) == ErrorsAt(ErrorsOf(s), p) = {} /\ CommandsAt(s, p) = {}

\* The entry left one error with this text and no command.
OneError(s, p, text) ==
  /\ Cardinality(ErrorsAt(ErrorsOf(s), p)) = 1
  /\ \A e \in ErrorsAt(ErrorsOf(s), p) : ErrorsOf(s)[e].message.text = text
  /\ CommandsAt(s, p) = {}

\* The errors a candidate can end in: lines 238-288.
CandidateFailures ==
  ReadOrParseFailures
    \cup {"command filename is not valid UTF-8",
          "conflicts with a built-in command name", "duplicate command name"}

\* The entry went on to the naming step: it ended as one command named
\* after the entry's base name and holding the content read through the
\* path, or as one naming, read or parse error.
TreatedAsCandidate(s, p) ==
  \/ /\ ErrorsAt(ErrorsOf(s), p) = {}
     /\ Cardinality(CommandsAt(s, p)) = 1
     /\ \A k \in CommandsAt(s, p) :
          /\ CommandsOf(s)[k].name = StemOf(p)
          /\ CommandsOf(s)[k].content
               = parse_frontmatter(NodeAt(p).content).body
  \/ \E text \in CandidateFailures : OneError(s, p, text)

\* The directory went on the work stack: its listing was opened, or opening
\* it failed.
Pushed(s, p) ==
  /\ CommandsAt(s, p) = {}
  /\ \/ p \in Range(enumerated) /\ ErrorsAt(ErrorsOf(s), p) = {}
     \/ OneError(s, p, "failed to read commands directory")

\* What the walk of scope s made of the visited entry p, the entry's file
\* type being known.
Selected(s, p) ==
  IF NodeAt(p).kind = "dir" THEN Pushed(s, p)
  ELSE IF LinkTo(p, "dir") THEN Silent(s, p)
  ELSE IF LinkTo(p, "missing")
  THEN OneError(s, p, "failed to resolve command symlink")
  ELSE IF RegularFile(p) /\ MdSuffix(p) THEN TreatedAsCandidate(s, p)
  ELSE Silent(s, p)

OnlyRealDirectoriesQueued == \A k \in DOMAIN queue : NodeAt(queue[k]).kind = "dir"

\* C18 as stated: every visited entry is a candidate exactly when it is a
\* regular file or a link to one with the extension md in any case, a real
\* directory is pushed, a link to a directory is skipped with no error and
\* never queued, a link that does not resolve yields one error and no
\* entry, and every other entry leaves no trace.
C18_SelectionAlways ==
  /\ OnlyRealDirectoriesQueued
  /\ Finished =>
       \A s \in Scopes : \A p \in Range(visited[s]) : Selected(s, p)

\* C18, amended: the same for every visited entry whose file type is read;
\* an entry whose file type cannot be read yields one "failed to read
\* command file type" error and no entry.
C18_Selection ==
  /\ OnlyRealDirectoriesQueued
  /\ Finished =>
       \A s \in Scopes : \A p \in Range(visited[s]) :
         IF NodeAt(p).type_ok THEN Selected(s, p)
         ELSE OneError(s, p, "failed to read command file type")

\* The walks have returned over a snapshot with a link to a regular file,
\* which yielded the command named after the link with the target's
\* content, and an entry that is no candidate: a link that was not
\* followed or resolved, or an entry whose type could not be read.
C18_Witness ==
  /\ Finished
  /\ \E p \in Range(visited["Project"]) :
       /\ LinkTo(p, "file")
       /\ \E k \in CommandsAt("Project", p) :
            /\ project_commands[k].name = <<"b", "a", "r">>
            /\ project_commands[k].content = PlainY
  /\ \E q \in Range(visited["Project"]) :
       \/ LinkTo(q, "dir")
       \/ ~NodeAt(q).type_ok

\* ------------------------------------------------------------------------
\* C19: the two numeric expanders
\* ------------------------------------------------------------------------
\* C19: expand_placeholders and expand_numeric_placeholders return the same
\* text for every template and argument list: from every position of a
\* scan both take the same step, and the text a scan returns, on the
\* command path or on the prompt path, is the value of both functions.
C19_ExpandersAgree ==
  /\ epc = "scan" =>
       CommandScanStep(content, args, i, out)
         = PromptScanStep(content, args, i, out)
  /\ epc = "done" =>
       /\ out = expand_placeholders(content, args)
       /\ out = expand_numeric_placeholders(content, args)

\* The prompt path has returned for "$ARGUMENTSx" and two arguments, and
\* the command path returns the same text.
C19_Witness ==
  /\ epc = "done"
  /\ expander = "prompt"
  /\ content = <<"$">> \o ArgumentsWord \o <<"x">>
  /\ Len(args) = 2
  /\ out = args[1] \o <<" ">> \o args[2] \o <<"x">>
  /\ expand_placeholders(content, args) = out

====
